---- MODULE Spec2Model ----
(***************************************************************************)
(* A model of quiz-bot.py: the per-user quiz session driven through the    *)
(* ConversationHandler (start, subject choice, answers, next batch,        *)
(* cancel), the subscription gate and the admin grant command.             *)
(***************************************************************************)
EXTENDS Integers, Sequences, FiniteSets, TLC

(***************************************************************************)
(* Program constants.                                                      *)
(***************************************************************************)
QUESTIONS_PER_BATCH == 10

YOUR_ADMIN_CHAT_ID == 9

SELECTING_SUBJECT == "SELECTING_SUBJECT"

QUIZ_IN_PROGRESS == "QUIZ_IN_PROGRESS"

\* ConversationHandler.END: the conversation of the user holds no state.
END == "END"

(***************************************************************************)
(* Bounds of the model.                                                    *)
(***************************************************************************)
\* number of questions of the small subject of the bank
SmallSize == 2

\* number of questions of the large subject of the bank
LargeSize == 25

\* the clock runs from 0 to MaxNow (in days)
MaxNow == 2

\* lists up to this length are shuffled into every permutation
MaxPermLen == 3

\* sessions up to this length receive answer tokens for every qid
FreeLen == 3

\* a corpus has up to this number of blocks
MaxBlocks == 3

(***************************************************************************)
(* Python values: dictionaries, lists, integers written as text.           *)
(***************************************************************************)
EmptyDict == [k \in {} |-> 0]

Get(d, k, default) == IF k \in DOMAIN d THEN d[k] ELSE default

Put(d, k, v) == [x \in (DOMAIN d) \cup {k} |-> IF x = k THEN v ELSE d[x]]

Unset(d, k) == [x \in (DOMAIN d) \ {k} |-> d[x]]

Min(a, b) == IF a <= b THEN a ELSE b

Max(a, b) == IF a >= b THEN a ELSE b

\* list(range(a, b))
Range(a, b) == [i \in 1..Max(b - a, 0) |-> a + i - 1]

Elems(s) == {s[i] : i \in 1..Len(s)}

Reverse(s) == [i \in 1..Len(s) |-> s[Len(s) + 1 - i]]

\* s[i] of a Python list: a negative index counts from the end
PyIndex(s, i) == IF i >= 0 THEN s[i + 1] ELSE s[Len(s) + i + 1]

\* the integers whose decimal text the model writes and reads
IntLiterals == (0 - 40)..40

\* int(s): the table of the decimal texts that parse
IntOf == [s \in {ToString(i) : i \in IntLiterals} |->
            CHOOSE i \in IntLiterals : ToString(i) = s]

IsIntStr(s) == s \in DOMAIN IntOf

\* round(num / den) of Python 3: to the nearest integer, a tie to the even one
PyRound(num, den) ==
    LET q == num \div den
        r == num % den
    IN  IF 2 * r < den THEN q
        ELSE IF 2 * r > den THEN q + 1
        ELSE IF q % 2 = 0 THEN q ELSE q + 1

(***************************************************************************)
(* The question bank that load_questions built at startup.                 *)
(***************************************************************************)
Letters == {"A", "B"}

\* the four option lines of a block, each a text of characters
OptionLines == << <<"A", ")", "x">>, <<"B", ")", "y">>,
                  <<"C", ")", "z">>, <<"D", ")", "w">> >>

\* the sizes of the subjects of the corpus
SubjectSize == [subj \in {"OT", "KTT", "Bosh"} |->
                  IF subj = "OT" THEN SmallSize
                  ELSE IF subj = "KTT" THEN LargeSize ELSE 0]

\* the sizes of the subjects OT, KTT and Bosh of the corpora that the random
\* mix is drawn from
MixSizes == {<<5, 100, 5>>, <<20, 20, 20>>, <<1, 1, 98>>, <<5, 95, 0>>,
             <<1, 1, 1>>, <<0, 3, 0>>, <<SmallSize, LargeSize, 0>>}

\* the size of the largest subject of any corpus
MaxSubjectSize ==
    LET sizes == {LargeSize, SmallSize} \cup UNION {Elems(sz) : sz \in MixSizes}
    IN  CHOOSE m \in sizes : \A k \in sizes : k <= m

\* the identity of the dict that the i-th block of a subject was loaded into
QuestionId(subj, i) == subj \o "#" \o ToString(i)

\* the question dicts, by identity: they are shared by the bank and by the
\* lists of the sessions, and no handler assigns to one
question_dicts ==
    [id \in {QuestionId(subj, i) : subj \in DOMAIN SubjectSize, i \in 1..MaxSubjectSize} |->
        LET i == CHOOSE k \in 1..MaxSubjectSize :
                    \E subj \in DOMAIN SubjectSize : QuestionId(subj, k) = id
        IN  [question |-> id,
             options  |-> OptionLines,
             correct  |-> IF i % 2 = 1 THEN "A" ELSE "B"]]

\* the dict load_questions returns: its keys in insertion order, and the
\* list of question dicts of each
loaded_questions ==
    [keys |-> <<"OT", "KTT", "Bosh">>,
     val  |-> [subj \in DOMAIN SubjectSize |->
                 [i \in 1..SubjectSize[subj] |-> QuestionId(subj, i)]]]

\* the dict it returns for a corpus whose subjects have the given sizes
bank_of(sizes) ==
    [keys |-> <<"OT", "KTT", "Bosh">>,
     val  |-> [subj \in DOMAIN SubjectSize |->
                 LET size == IF subj = "OT" THEN sizes[1]
                             ELSE IF subj = "KTT" THEN sizes[2] ELSE sizes[3]
                 IN  [i \in 1..size |-> QuestionId(subj, i)]]]

(***************************************************************************)
(* load_questions: the text of the corpus, block by block.  A line is the  *)
(* list of its characters.                                                 *)
(***************************************************************************)
LowerCase == <<"a", "b", "c", "d", "e", "f", "g", "h", "i", "j", "k", "l", "m",
               "n", "o", "p", "q", "r", "s", "t", "u", "v", "w", "x", "y", "z">>

UpperCase == <<"A", "B", "C", "D", "E", "F", "G", "H", "I", "J", "K", "L", "M",
               "N", "O", "P", "Q", "R", "S", "T", "U", "V", "W", "X", "Y", "Z">>

\* c.isalpha() of one character
isalpha(c) == c \in Elems(LowerCase) \cup Elems(UpperCase)

\* c.upper() of one character
upper(c) ==
    IF c \in Elems(LowerCase)
    THEN UpperCase[CHOOSE i \in 1..Len(LowerCase) : LowerCase[i] = c]
    ELSE c

\* line.startswith(prefix)
startswith(line, prefix) ==
    Len(line) >= Len(prefix) /\ SubSeq(line, 1, Len(prefix)) = prefix

\* line.split(":", 1)[1] of a line that holds a colon
after_colon(line) ==
    LET first == CHOOSE i \in 1..Len(line) :
                    line[i] = ":" /\ \A j \in 1..(i - 1) : line[j] # ":"
    IN  SubSeq(line, first + 1, Len(line))

\* text.strip()
strip(text) ==
    LET inked == {i \in 1..Len(text) : text[i] # " "}
    IN  IF inked = {} THEN <<>>
        ELSE SubSeq(text, CHOOSE i \in inked : \A j \in inked : i <= j,
                          CHOOSE i \in inked : \A j \in inked : i >= j)

SubjectPrefix == <<"S", "u", "b", "j", "e", "c", "t", ":">>

AnswerPrefix == <<"A", "n", "s", "w", "e", "r", ":">>

\* one option line of a block passes the loader
option_ok(opt) == Len(opt) > 2 /\ opt[2] = ")" /\ isalpha(opt[1])

\* subjects[name] = []: a new key goes to the end, an old one keeps its place
reset_subject(subjects, name) ==
    [keys |-> IF name \in DOMAIN subjects.val THEN subjects.keys
              ELSE Append(subjects.keys, name),
     val  |-> Put(subjects.val, name, <<>>)]

\* subjects[name].append(q)
append_question(subjects, name, q) ==
    [keys |-> subjects.keys,
     val  |-> [subjects.val EXCEPT ![name] = Append(@, q)]]

\* the locals of the loop after a pass that changed nothing
skip_block(current_subject, subjects) ==
    [current_subject |-> current_subject, subjects |-> subjects]

\* a variant of load_block in which a Subject line without a name leaves the
\* subject context as it was
load_block_keeps_context(current_subject, subjects, lines) ==
    IF startswith(lines[1], SubjectPrefix)
    THEN LET name == strip(after_colon(lines[1]))
         IN  IF name # <<>>
             THEN [current_subject |-> <<name>>,
                   subjects |-> reset_subject(subjects, name)]
             ELSE skip_block(current_subject, subjects)
    ELSE IF current_subject = <<>> THEN skip_block(current_subject, subjects)
    ELSE IF Len(lines) < 6 THEN skip_block(current_subject, subjects)
    ELSE IF current_subject[1] \notin DOMAIN subjects.val
    THEN skip_block(current_subject, subjects)
    ELSE LET question_text == lines[1]
             options       == SubSeq(lines, 2, 5)
             answer_line   == lines[6]
         IN  IF ~ \A i \in 1..Len(options) : option_ok(options[i])
             THEN skip_block(current_subject, subjects)
             ELSE IF ~startswith(answer_line, AnswerPrefix)
             THEN skip_block(current_subject, subjects)
             ELSE LET correct_answer_letter == strip(after_colon(answer_line))
                  IN  IF \/ correct_answer_letter = <<>>
                         \/ Len(correct_answer_letter) # 1
                         \/ ~isalpha(correct_answer_letter[1])
                      THEN skip_block(current_subject, subjects)
                      ELSE [current_subject |-> current_subject,
                            subjects |->
                                append_question(subjects, current_subject[1],
                                    [question |-> question_text,
                                     options  |-> options,
                                     correct  |-> upper(correct_answer_letter[1])])]

\* one pass of the loop over the blocks: the locals current_subject (<<>> for
\* None, <<name>> for a name) and subjects after the block of these lines
load_block(current_subject, subjects, lines) ==
    IF startswith(lines[1], SubjectPrefix)
    THEN LET name == strip(after_colon(lines[1]))
         IN  IF name # <<>>
             THEN [current_subject |-> <<name>>,
                   subjects |-> reset_subject(subjects, name)]
             ELSE [current_subject |-> <<>>, subjects |-> subjects]
    ELSE IF current_subject = <<>> THEN skip_block(current_subject, subjects)
    ELSE IF Len(lines) < 6 THEN skip_block(current_subject, subjects)
    ELSE IF current_subject[1] \notin DOMAIN subjects.val
    THEN skip_block(current_subject, subjects)
    ELSE LET question_text == lines[1]
             options       == SubSeq(lines, 2, 5)
             answer_line   == lines[6]
         IN  IF ~ \A i \in 1..Len(options) : option_ok(options[i])
             THEN skip_block(current_subject, subjects)
             ELSE IF ~startswith(answer_line, AnswerPrefix)
             THEN skip_block(current_subject, subjects)
             ELSE LET correct_answer_letter == strip(after_colon(answer_line))
                  IN  IF \/ correct_answer_letter = <<>>
                         \/ Len(correct_answer_letter) # 1
                         \/ ~isalpha(correct_answer_letter[1])
                      THEN skip_block(current_subject, subjects)
                      ELSE [current_subject |-> current_subject,
                            subjects |->
                                append_question(subjects, current_subject[1],
                                    [question |-> question_text,
                                     options  |-> options,
                                     correct  |-> upper(correct_answer_letter[1])])]

Users == {1}

VARIABLES
    bot_data,    \* application.bot_data['questions']: subject -> list of questions
    store,       \* paid_users_collection: chat_id -> document
    now,         \* datetime.now(), in days
    conv,        \* ConversationHandler: user -> state of the conversation
    user_data,   \* context.user_data of each user: a dict
    out,         \* the reply the last handler run for the user ended with
    load,        \* load_questions: its blocks, its place in them and its locals
    tasks,       \* the handler runs in flight: where each stands, and its locals
    sent,        \* the replies of the runs in flight, in the order they were sent
    base,        \* the session as the first of the runs in flight found it
    submitted    \* per user: the qids handle_answer took an answer for, in the
                 \* session the user has

\* the variables of the handler runs that overlap
conc == <<tasks, sent, base>>

vars == <<bot_data, store, now, conv, user_data, out, load, conc, submitted>>

TaskIds == {1, 2}

\* the local answered_in_batch of a run names a set object: the one that
\* user_data['answered_in_batch'] holds (shared), or one that the dict no
\* longer holds, with the value val
IdleTask ==
    [pc |-> "idle", u |-> 0, kind |-> "none", data |-> <<>>,
     batch |-> <<>>, ans |-> [shared |-> FALSE, val |-> {}],
     total |-> 0, start |-> 0, end_index |-> 0, ret |-> "END"]

\* no handler run is in flight
NoRuns ==
    /\ tasks = [t \in TaskIds |-> IdleTask]
    /\ sent = <<>>
    /\ base = [ud |-> EmptyDict, conv |-> "END"]

\* load_questions has returned
Returned ==
    [blocks |-> <<>>, pos |-> 1, current_subject |-> <<>>,
     subjects |-> [keys |-> <<>>, val |-> EmptyDict]]

Msg(kind, a, b) == [kind |-> kind, a |-> a, b |-> b]

Init ==
    /\ bot_data = loaded_questions
    /\ store = EmptyDict
    /\ now = 0
    /\ conv = [u \in Users |-> END]
    /\ user_data = [u \in Users |-> EmptyDict]
    /\ out = [u \in Users |-> Msg("none", 0, 0)]
    /\ load = Returned
    /\ NoRuns
    /\ submitted = [u \in Users |-> {}]

(***************************************************************************)
(* random.shuffle and random.sample.                                       *)
(***************************************************************************)
\* the orders random.shuffle(s) can leave: every permutation of a short list,
\* the list as it is and reversed for a long one
Shuffles(s) ==
    IF Len(s) <= MaxPermLen
    THEN {[i \in 1..Len(s) |-> s[p[i]]] :
            p \in {f \in [1..Len(s) -> 1..Len(s)] :
                     \A i, j \in 1..Len(s) : i # j => f[i] # f[j]}}
    ELSE {s, Reverse(s)}

\* the lists random.sample(s, k) can return: the model draws the first k or
\* the last k elements (start_quiz shuffles the combined list afterwards)
Samples(s, k) == {SubSeq(s, 1, k), SubSeq(s, Len(s) - k + 1, Len(s))}

(***************************************************************************)
(* What a handler returns: the user's dict as it leaves it, the state it   *)
(* returns to the ConversationHandler, and its last reply.  A handler that *)
(* raises (a transport call failed) returns no state.                      *)
(***************************************************************************)
RAISED == "RAISED"

Ret(ud, state, msg) == [ud |-> ud, ret |-> state, out |-> msg]

Raise(ud) == [ud |-> ud, ret |-> RAISED, out |-> Msg("error", 0, 0)]

(***************************************************************************)
(* The subscription gate.                                                  *)
(***************************************************************************)
\* the collection is a list of documents; None is written as the empty dict
None == EmptyDict

\* the positions of the documents that match {"chat_id": chat_id}
Matching(coll, chat_id) == {i \in 1..Len(coll) : coll[i]["chat_id"] = chat_id}

\* find_one({"chat_id": chat_id}): the first matching document, or None
find_one(coll, chat_id) ==
    LET hits == Matching(coll, chat_id)
    IN  IF hits = {} THEN None
        ELSE coll[CHOOSE i \in hits : \A j \in hits : i <= j]

\* update_one({"chat_id": chat_id}, {"$set": set_fields, "$unset": unset_keys}):
\* the first matching document is changed, if there is one
update_one(coll, chat_id, set_fields, unset_keys) ==
    LET hits == Matching(coll, chat_id)
    IN  IF hits = {} THEN coll
        ELSE LET first == CHOOSE i \in hits : \A j \in hits : i <= j
                 doc   == coll[first]
                 keys  == ((DOMAIN doc) \cup (DOMAIN set_fields)) \ unset_keys
             IN  [coll EXCEPT ![first] =
                     [k \in keys |-> IF k \in DOMAIN set_fields
                                     THEN set_fields[k] ELSE doc[k]]]

insert_one(coll, doc) == Append(coll, doc)

\* a variant of is_user_subscribed that refuses on the day of the expiry
is_user_subscribed_until_the_day(chat_id, dbfault) ==
    IF dbfault THEN FALSE
    ELSE LET user_doc == find_one(store, chat_id)
         IN  IF user_doc = None THEN FALSE
             ELSE IF /\ "subscription_expires_at" \in DOMAIN user_doc
                     /\ user_doc["subscription_expires_at"] <= now
             THEN FALSE
             ELSE TRUE

\* find_one raising (dbfault) is caught and answered False
is_user_subscribed(chat_id, dbfault) ==
    IF dbfault THEN FALSE
    ELSE LET user_doc == find_one(store, chat_id)
         IN  IF user_doc = None THEN FALSE
             ELSE IF /\ "subscription_expires_at" \in DOMAIN user_doc
                     /\ user_doc["subscription_expires_at"] < now
             THEN FALSE
             ELSE TRUE

(***************************************************************************)
(* The callback data of the buttons, as the fields between the '|'.        *)
(***************************************************************************)
known_subjects == <<"amaliy-dasturlar", "dasturlash-tillari-bazasi", "OT", "KTT">>

\* the callback data of the keyboard's buttons; the empty list stands for None
get_start_keyboard(bank) ==
    LET subj_buttons ==
            SelectSeq([i \in 1..Len(known_subjects) |-> <<"subj", known_subjects[i]>>],
                      LAMBDA b : b[2] \in DOMAIN bank.val /\ bank.val[b[2]] # <<>>)
    IN  IF \E s \in DOMAIN bank.val : bank.val[s] # <<>>
        THEN Append(subj_buttons, <<"random">>)
        ELSE subj_buttons

(***************************************************************************)
(* start: the /start command.                                              *)
(***************************************************************************)
StartFaults == {"none", "reply"}

\* a variant of start that keeps user_data on a gate pass
start_keeps_user_data(chat_id, ud, dbfault, fault) ==
    IF is_user_subscribed(chat_id, dbfault)
    THEN LET reply_markup == get_start_keyboard(bot_data)
         IN  IF fault = "reply" THEN Raise(ud)
             ELSE IF reply_markup = <<>>
                  THEN Ret(ud, END, Msg("no_subjects", 0, 0))
                  ELSE Ret(ud, SELECTING_SUBJECT, Msg("welcome", 0, 0))
    ELSE IF fault = "reply" THEN Raise(ud)
         ELSE Ret(ud, END, Msg("payment_prompt", 0, 0))

\* a variant of start that goes on to the subjects after the payment prompt
start_ignores_gate(chat_id, ud, dbfault, fault) ==
    IF is_user_subscribed(chat_id, dbfault)
    THEN LET reply_markup == get_start_keyboard(bot_data)
         IN  IF fault = "reply" THEN Raise(EmptyDict)
             ELSE IF reply_markup = <<>>
                  THEN Ret(EmptyDict, END, Msg("no_subjects", 0, 0))
                  ELSE Ret(EmptyDict, SELECTING_SUBJECT, Msg("welcome", 0, 0))
    ELSE IF fault = "reply" THEN Raise(ud)
         ELSE Ret(ud, SELECTING_SUBJECT, Msg("payment_prompt", 0, 0))

start(chat_id, ud, dbfault, fault) ==
    IF is_user_subscribed(chat_id, dbfault)
    THEN LET reply_markup == get_start_keyboard(bot_data)
         IN  IF fault = "reply" THEN Raise(EmptyDict)
             ELSE IF reply_markup = <<>>
                  THEN Ret(EmptyDict, END, Msg("no_subjects", 0, 0))
                  ELSE Ret(EmptyDict, SELECTING_SUBJECT, Msg("welcome", 0, 0))
    ELSE IF fault = "reply" THEN Raise(ud)
         ELSE Ret(ud, END, Msg("payment_prompt", 0, 0))

(***************************************************************************)
(* send_next_question_batch                                                *)
(***************************************************************************)
\* a list of questions holds references to question dicts; Deref reads one
Deref(id) == question_dicts[id]

\* the options a question is sent with: a text longer than 2 whose second
\* character is ')'
ValidOptions(q_data) ==
    SelectSeq(q_data.options, LAMBDA opt : Len(opt) > 2 /\ opt[2] = ")")

\* the callback data of the buttons one question of the batch is sent with
AnswerButtons(question_global_index, q_data) ==
    LET valid_options == ValidOptions(q_data)
    IN  [i \in 1..Len(valid_options) |->
            <<"ans", ToString(question_global_index), upper(valid_options[i][1])>>]

\* a variant of advance_index that moves the cursor one past the batch
advance_index_past_end(ud, end_index) == Put(ud, "index", end_index + 1)

\* the dict once the whole batch was sent: the cursor moves to its end
advance_index(ud, end_index) == Put(ud, "index", end_index)

\* fault "send": the first send_message of the batch loop fails;
\* fault "button": the message with the "next" button fails
send_next_question_batch(ud, fault) ==
    LET current_index   == Get(ud, "index", 0)
        questions       == Get(ud, "questions", <<>>)
        total_questions == Len(questions)
    IN  IF current_index >= total_questions
        THEN IF fault = "send" THEN Raise(ud)
             ELSE Ret(ud, SELECTING_SUBJECT, Msg("all_answered", 0, 0))
        ELSE IF questions = <<>>
        THEN IF fault = "send" THEN Raise(ud)
             ELSE Ret(EmptyDict, END, Msg("no_questions", 0, 0))
        ELSE
        LET end_index     == Min(current_index + QUESTIONS_PER_BATCH, total_questions)
            batch_indices == Range(current_index, end_index)
            skipped       == {q \in Elems(batch_indices) :
                                ValidOptions(Deref(questions[q + 1])) = <<>>}
            ud1 == Put(Put(ud, "current_batch_indices", batch_indices),
                       "answered_in_batch", {})
            ud2 == Put(ud1, "answered_in_batch", skipped)
            ud3 == advance_index(ud2, end_index)
        IN  IF fault = "send" THEN Raise(ud1)
            ELSE IF fault = "button" /\ end_index < total_questions THEN Raise(ud3)
            ELSE Ret(ud3, QUIZ_IN_PROGRESS, Msg("batch", current_index, end_index))

(***************************************************************************)
(* start_quiz: a subject button or the random button.                      *)
(***************************************************************************)
RECURSIVE SampleFrom_by_share_only(_, _, _, _)
\* a variant of SampleFrom without the floor of one question per subject
SampleFrom_by_share_only(bank, i, total_available, target_total) ==
    IF i > Len(bank.keys) THEN {<<>>}
    ELSE LET subj_questions == bank.val[bank.keys[i]]
             rest == SampleFrom_by_share_only(bank, i + 1, total_available, target_total)
             count == PyRound(target_total * Len(subj_questions), total_available)
             actual_count == Min(count, Len(subj_questions))
         IN  IF subj_questions = <<>> THEN rest
             ELSE {a \o b : a \in Samples(subj_questions, actual_count), b \in rest}

RECURSIVE SampleFrom(_, _, _, _)
\* the lists temp_list can hold after the subjects from the i-th on were sampled
SampleFrom(bank, i, total_available, target_total) ==
    IF i > Len(bank.keys) THEN {<<>>}
    ELSE LET subj_questions == bank.val[bank.keys[i]]
             rest == SampleFrom(bank, i + 1, total_available, target_total)
             count == Max(1, PyRound(target_total * Len(subj_questions), total_available))
             actual_count == Min(count, Len(subj_questions))
         IN  IF subj_questions = <<>> THEN rest
             ELSE {a \o b : a \in Samples(subj_questions, actual_count), b \in rest}

RECURSIVE SumLen(_, _)
SumLen(bank, i) ==
    IF i > Len(bank.keys) THEN 0
    ELSE Len(bank.val[bank.keys[i]]) + SumLen(bank, i + 1)

\* the question lists start_quiz can prepare for the callback data; the empty
\* set when it ends the conversation with an error message instead
QuestionsToAsk(bank, data) ==
    IF data[1] = "subj" /\ Len(data) >= 2
    THEN LET subject_name == data[2]
         IN  IF subject_name \in DOMAIN bank.val /\ bank.val[subject_name] # <<>>
             THEN Shuffles(bank.val[subject_name])
             ELSE {}
    ELSE IF data = <<"random">>
    THEN IF ~ \E s \in DOMAIN bank.val : bank.val[s] # <<>> THEN {}
         ELSE LET total_available == SumLen(bank, 1)
                  target_total == Min(50, total_available)
              IN  UNION {Shuffles(t) :
                           t \in SampleFrom(bank, 1, total_available, target_total)}
    ELSE {}

SubjectName(data) ==
    IF data[1] = "subj" /\ Len(data) >= 2 THEN data[2]
    ELSE IF data = <<"random">> THEN "Random Mix"
    ELSE "Unknown"

QuizFaults == {"none", "answer", "edit", "send", "button"}

\* start_quiz with questions_to_ask as random.shuffle left it
start_quiz_with(questions_to_ask, data, fault) ==
    LET ud1 == [subject |-> SubjectName(data),
                questions |-> questions_to_ask,
                index |-> 0,
                score |-> 0,
                answered_in_batch |-> {},
                current_batch_indices |-> <<>>]
    IN  IF fault = "edit" THEN Raise(ud1)
        ELSE LET r == send_next_question_batch(ud1, fault)
             IN  IF r.ret = RAISED THEN r
                 ELSE Ret(r.ud, QUIZ_IN_PROGRESS, r.out)

\* A list object is <<s>> when it is the bank's list of subject s, and <<>>
\* when it is a list of its own.
\* a variant of list_copy: questions_to_ask = all_loaded_questions[subject_name]
list_alias(bank, subject_name) == <<subject_name>>

\* list(all_loaded_questions[subject_name]): a new list of the same questions
list_copy(bank, subject_name) == <<>>

\* the bank after random.shuffle(l) left the list object l in the order p
shuffle(bank, l, p) ==
    IF l = <<>> THEN bank ELSE [bank EXCEPT !.val[l[1]] = p]

\* the bank after start_quiz ended with outcome a: the list it shuffled is
\* the copy of the subject's list, or temp_list, which random.sample filled
\* with lists of its own
bank_after_start_quiz(bank, data, fault, a) ==
    IF fault = "answer" \/ "questions" \notin DOMAIN a.ud THEN bank
    ELSE IF data[1] = "subj"
    THEN shuffle(bank, list_copy(bank, data[2]), a.ud["questions"])
    ELSE shuffle(bank, <<>>, a.ud["questions"])

\* the outcomes of start_quiz: one for each list the random choices can leave
start_quiz(ud, data, fault) ==
    IF fault = "answer" THEN {Raise(ud)}
    ELSE LET lists == QuestionsToAsk(bot_data, data)
         IN  IF lists = {} \/ lists = {<<>>}
             THEN IF fault = "edit" THEN {Raise(EmptyDict)}
                  ELSE {Ret(EmptyDict, END, Msg("selection_error", 0, 0))}
             ELSE {start_quiz_with(qs, data, fault) : qs \in lists}

(***************************************************************************)
(* handle_answer: an ans|<qid>|<letter> button.                            *)
(***************************************************************************)
\* the key f"correct_{qid}" of the user's dict
correctly_answered_key(qid) == "correct_" \o ToString(qid)

AnswerFaults == {"none", "answer", "edit", "finish"}

\* a variant of record_answer that records any question, of the batch or not
record_answer_any(qid, current_batch_indices, answered_in_batch) ==
    IF qid \notin answered_in_batch
    THEN answered_in_batch \cup {qid}
    ELSE answered_in_batch

\* answered_in_batch after the answer to qid: only a question of the current
\* batch is recorded
record_answer(qid, current_batch_indices, answered_in_batch) ==
    IF qid \in Elems(current_batch_indices) /\ qid \notin answered_in_batch
    THEN answered_in_batch \cup {qid}
    ELSE answered_in_batch

\* a variant of credit_answer that adds 1 for every correct answer
credit_answer_every_time(ud, key, is_correct) ==
    IF is_correct
    THEN Put(Put(ud, "score", Get(ud, "score", 0) + 1), key, TRUE)
    ELSE ud

\* the dict after the answer was scored: the first correct answer under
\* the key adds 1 to the score and sets the key
credit_answer(ud, key, is_correct) ==
    IF is_correct /\ ~Get(ud, key, FALSE)
    THEN Put(Put(ud, "score", Get(ud, "score", 0) + 1), key, TRUE)
    ELSE ud

\* a variant of is_last_batch that looks for the index total_questions
is_last_batch_off_by_one(total_questions, current_batch_indices) ==
    total_questions \in Elems(current_batch_indices)

is_last_batch(total_questions, current_batch_indices) ==
    (total_questions - 1) \in Elems(current_batch_indices)

all_in_batch_answered(answered_in_batch, current_batch_indices) ==
    Cardinality(answered_in_batch) >= Len(current_batch_indices)

\* a variant of invalid_callback_data that ends the session as a qid out of
\* range does
invalid_callback_data_aborts(ud) ==
    Ret(EmptyDict, END, Msg("bad_format", 0, 0))

\* the except branch of the split and int(): a message, and the state stays
invalid_callback_data(ud) ==
    Ret(ud, QUIZ_IN_PROGRESS, Msg("bad_format", 0, 0))

\* fault "edit": edit_message_text fails with an error other than BadRequest;
\* fault "finish": the message with the final score fails
handle_answer(ud, data, fault) ==
    IF fault = "answer" THEN Raise(ud)
    ELSE IF Len(data) # 3 \/ ~IsIntStr(data[2])
    THEN invalid_callback_data(ud)
    ELSE
    LET qid                   == IntOf[data[2]]
        selected_letter       == data[3]
        questions             == Get(ud, "questions", <<>>)
        total_questions       == Len(questions)
        current_batch_indices == Get(ud, "current_batch_indices", <<>>)
        answered_in_batch     == Get(ud, "answered_in_batch", {})
    IN  IF questions = <<>> \/ qid >= total_questions
        THEN IF fault = "edit" THEN Raise(ud)
             ELSE Ret(EmptyDict, END, Msg("qid_error", 0, 0))
        ELSE
        LET answered1 == record_answer(qid, current_batch_indices, answered_in_batch)
            ud1 == IF answered1 # answered_in_batch
                   THEN Put(ud, "answered_in_batch", answered1) ELSE ud
        IN  IF qid < 0 - total_questions THEN Raise(ud1)
            ELSE
            LET question_data == Deref(PyIndex(questions, qid))
                correct_answer_letter == question_data.correct
                key == correctly_answered_key(qid)
                is_correct == (selected_letter = correct_answer_letter)
                ud2 == credit_answer(ud1, key, is_correct)
            IN  IF fault = "edit" THEN Raise(ud2)
                ELSE IF /\ is_last_batch(total_questions, current_batch_indices)
                        /\ all_in_batch_answered(answered1, current_batch_indices)
                THEN IF fault = "finish" THEN Raise(ud2)
                     ELSE Ret(ud2, SELECTING_SUBJECT,
                              Msg("finish", Get(ud2, "score", 0), total_questions))
                ELSE Ret(ud2, QUIZ_IN_PROGRESS, Msg("feedback", 0, 0))

(***************************************************************************)
(* handle_next: the "next" button.                                         *)
(***************************************************************************)
NextFaults == {"none", "answer", "send", "button"}

\* a variant of batch_finished that lets one question go unanswered
batch_finished_but_one(answered_in_batch, current_batch_indices) ==
    Cardinality(answered_in_batch) + 1 >= Len(current_batch_indices)

\* the batch counts as finished: the next one may be sent
batch_finished(answered_in_batch, current_batch_indices) ==
    Cardinality(answered_in_batch) >= Len(current_batch_indices)

\* a variant of remaining_count that counts the answered questions
remaining_count_answered(current_batch_indices, answered_in_batch) ==
    Cardinality(answered_in_batch)

remaining_count(current_batch_indices, answered_in_batch) ==
    Len(current_batch_indices) - Cardinality(answered_in_batch)

handle_next(ud, fault) ==
    LET current_batch_indices == Get(ud, "current_batch_indices", <<>>)
        answered_in_batch     == Get(ud, "answered_in_batch", {})
    IN  IF fault = "answer" THEN Raise(ud)
        ELSE IF batch_finished(answered_in_batch, current_batch_indices)
        THEN send_next_question_batch(ud, fault)
        ELSE IF fault = "send" THEN Raise(ud)
        ELSE Ret(ud, QUIZ_IN_PROGRESS,
                 Msg("remaining",
                     remaining_count(current_batch_indices, answered_in_batch), 0))

(***************************************************************************)
(* cancel: the /cancel command.                                            *)
(***************************************************************************)
CancelFaults == {"none", "reply"}

cancel(ud, fault) ==
    IF fault = "reply" THEN Raise(ud)
    ELSE Ret(EmptyDict, END, Msg("cancelled", 0, 0))

(***************************************************************************)
(* conv_handler: which handler an update of the user reaches, and what the *)
(* ConversationHandler keeps of its run.                                   *)
(***************************************************************************)
\* the ConversationHandler keeps the state a handler returns; a handler that
\* raises leaves the conversation where it was
After(u, r) ==
    [ud   |-> r.ud,
     conv |-> IF r.ret = RAISED THEN conv[u] ELSE r.ret,
     out  |-> r.out]

\* no handler matches the update in the state of the conversation
Unhandled(u) == [ud |-> user_data[u], conv |-> conv[u], out |-> out[u]]

\* /start: an entry point, and a fallback of every state
OnStart(u, dbfault, fault) == After(u, start(u, user_data[u], dbfault, fault))

\* pattern ^subj\| or ^random$, in state SELECTING_SUBJECT only: the outcomes
OnSubject(u, data, fault) ==
    IF conv[u] = SELECTING_SUBJECT
    THEN {After(u, r) : r \in start_quiz(user_data[u], data, fault)}
    ELSE {Unhandled(u)}

\* pattern ^ans\|, in state QUIZ_IN_PROGRESS only
OnAnswer(u, data, fault) ==
    IF conv[u] = QUIZ_IN_PROGRESS
    THEN After(u, handle_answer(user_data[u], data, fault))
    ELSE Unhandled(u)

\* pattern ^next$, in state QUIZ_IN_PROGRESS only
OnNext(u, fault) ==
    IF conv[u] = QUIZ_IN_PROGRESS
    THEN After(u, handle_next(user_data[u], fault))
    ELSE Unhandled(u)

\* /cancel: a fallback, so it is handled only while a conversation is open
OnCancel(u, fault) ==
    IF conv[u] # END
    THEN After(u, cancel(user_data[u], fault))
    ELSE Unhandled(u)

\* a variant of DeliverBank: one dict for all users in place of
\* context.user_data
DeliverBank_one_dict(u, a, bank) ==
    /\ user_data' = [v \in DOMAIN user_data |-> a.ud]
    /\ conv' = [conv EXCEPT ![u] = a.conv]
    /\ out' = [out EXCEPT ![u] = a.out]
    /\ bot_data' = bank
    /\ UNCHANGED <<store, now, load, conc, submitted>>

\* the update of user u was processed with outcome a, the lists of
\* bot_data['questions'] being left as bank holds them
DeliverBank(u, a, bank) ==
    /\ user_data' = [user_data EXCEPT ![u] = a.ud]
    /\ conv' = [conv EXCEPT ![u] = a.conv]
    /\ out' = [out EXCEPT ![u] = a.out]
    /\ bot_data' = bank
    /\ UNCHANGED <<store, now, load, conc, submitted>>

\* the update of user u was processed with outcome a by a handler that
\* writes to no list
Deliver(u, a) == DeliverBank(u, a, bot_data)

StartCommand(u) ==
    \E dbfault \in BOOLEAN, fault \in StartFaults :
        Deliver(u, OnStart(u, dbfault, fault))

\* the callback data a user can send for a subject
SubjectData == {<<"subj", "OT">>, <<"subj", "KTT">>, <<"subj", "Bosh">>,
                <<"subj", "Math">>, <<"random">>}

SubjectCallback(u) ==
    IF conv[u] = SELECTING_SUBJECT
    THEN \E data \in SubjectData, fault \in QuizFaults :
            \E a \in OnSubject(u, data, fault) :
                DeliverBank(u, a, bank_after_start_quiz(bot_data, data, fault, a))
    ELSE Deliver(u, Unhandled(u))

\* the question of the current batch the user has not answered yet and that
\* was sent first
NextUnanswered(ud) ==
    LET open == Elems(Get(ud, "current_batch_indices", <<>>))
                    \ Get(ud, "answered_in_batch", {})
    IN  {q \in open : \A p \in open : q <= p}

\* the ans| callback data delivered to the user, n being the length of the
\* session's list: with any letter, every qid of a short session and the qids
\* 0 and n-1 of a long one, and the qid -1; the button of the correct option
\* of the next unanswered question; the qids n and -(n+1); malformed data
AnswerData(ud) ==
    LET questions == Get(ud, "questions", <<>>)
        n == Len(questions)
        probes == (IF n <= FreeLen THEN 0..(n - 1) ELSE {0, n - 1}) \cup {0 - 1}
    IN  {<<"ans", ToString(q), l>> : q \in probes, l \in Letters}
        \cup {<<"ans", ToString(q), Deref(questions[q + 1]).correct>> :
                 q \in NextUnanswered(ud)}
        \cup {<<"ans", ToString(n), "A">>, <<"ans", ToString(0 - (n + 1)), "A">>}
        \cup {<<"ans", "x", "A">>, <<"ans", "0">>}

\* the callback data with the transport faults that change the handler's run
AnswerInputs(ud) ==
    {in \in AnswerData(ud) \X AnswerFaults :
        in[2] = "none" \/ handle_answer(ud, in[1], in[2]) # handle_answer(ud, in[1], "none")}

AnswerCallback(u) ==
    IF conv[u] = QUIZ_IN_PROGRESS
    THEN \E in \in AnswerInputs(user_data[u]) :
            Deliver(u, OnAnswer(u, in[1], in[2]))
    ELSE Deliver(u, Unhandled(u))

NextCallback(u) ==
    IF conv[u] = QUIZ_IN_PROGRESS
    THEN \E fault \in NextFaults : Deliver(u, OnNext(u, fault))
    ELSE Deliver(u, Unhandled(u))

CancelCommand(u) ==
    IF conv[u] # END
    THEN \E fault \in CancelFaults : Deliver(u, OnCancel(u, fault))
    ELSE Deliver(u, Unhandled(u))

(***************************************************************************)
(* payment_command and add_subscriber_command, outside the conversation.   *)
(***************************************************************************)
\* /payment replies with the payment instructions and changes nothing
PaymentCommand(u) == UNCHANGED vars

\* the argument lists of /addsubscriber the model sends
GrantArgs == {<<>>, <<"1">>, <<"1", "0">>}

\* who sends them: the admin any of them, a user the first valid one
GrantInputs == ({YOUR_ADMIN_CHAT_ID} \X GrantArgs) \cup (Users \X {<<"1">>})

\* a variant of grant that counts the days of a renewal from subscribed_at
grant_from_subscribed_at(coll, target_chat_id, expiry_days) ==
    LET user_doc == find_one(coll, target_chat_id)
        since == IF user_doc # None THEN Get(user_doc, "subscribed_at", now) ELSE now
        new_expiry_date == IF expiry_days # <<>> THEN <<since + expiry_days[1]>> ELSE <<>>
    IN  IF user_doc # None
        THEN LET set1 == Put(EmptyDict, "subscribed_at", since)
                 set_fields == IF new_expiry_date # <<>>
                               THEN Put(set1, "subscription_expires_at",
                                        new_expiry_date[1])
                               ELSE set1
                 unset_keys == IF /\ new_expiry_date = <<>>
                                  /\ "subscription_expires_at" \in DOMAIN user_doc
                               THEN {"subscription_expires_at"} ELSE {}
             IN  [store |-> update_one(coll, target_chat_id, set_fields, unset_keys),
                  calls |-> <<"find_one", "update_one">>,
                  reply |-> "updated"]
        ELSE LET subscriber_data ==
                     Put(Put(Put(EmptyDict, "chat_id", target_chat_id),
                             "subscribed_at", now), "username", "admin")
             IN  [store |-> insert_one(coll,
                                IF new_expiry_date # <<>>
                                THEN Put(subscriber_data, "subscription_expires_at",
                                         new_expiry_date[1])
                                ELSE subscriber_data),
                  calls |-> <<"find_one", "insert_one">>,
                  reply |-> "added"]

\* a variant of grant that inserts without looking for a document
grant_always_inserts(coll, target_chat_id, expiry_days) ==
    LET subscriber_data ==
            Put(Put(Put(EmptyDict, "chat_id", target_chat_id),
                    "subscribed_at", now), "username", "admin")
    IN  [store |-> insert_one(coll,
                       IF expiry_days # <<>>
                       THEN Put(subscriber_data, "subscription_expires_at",
                                now + expiry_days[1])
                       ELSE subscriber_data),
         calls |-> <<"insert_one">>,
         reply |-> "added"]

\* the command once its arguments are parsed: the collection as it leaves
\* it and the calls it made on it. An optional value is written as a list:
\* <<>> for None, <<v>> for the value v
grant(coll, target_chat_id, expiry_days) ==
    LET user_doc == find_one(coll, target_chat_id)
        new_expiry_date == IF expiry_days # <<>> THEN <<now + expiry_days[1]>> ELSE <<>>
    IN  IF user_doc # None
        THEN LET set1 == Put(EmptyDict, "subscribed_at",
                             Get(user_doc, "subscribed_at", now))
                 set_fields == IF new_expiry_date # <<>>
                               THEN Put(set1, "subscription_expires_at",
                                        new_expiry_date[1])
                               ELSE set1
                 unset_keys == IF /\ new_expiry_date = <<>>
                                  /\ "subscription_expires_at" \in DOMAIN user_doc
                               THEN {"subscription_expires_at"} ELSE {}
             IN  [store |-> update_one(coll, target_chat_id, set_fields, unset_keys),
                  calls |-> <<"find_one", "update_one">>,
                  reply |-> "updated"]
        ELSE LET subscriber_data ==
                     Put(Put(Put(EmptyDict, "chat_id", target_chat_id),
                             "subscribed_at", now), "username", "admin")
             IN  [store |-> insert_one(coll,
                                IF new_expiry_date # <<>>
                                THEN Put(subscriber_data, "subscription_expires_at",
                                         new_expiry_date[1])
                                ELSE subscriber_data),
                  calls |-> <<"find_one", "insert_one">>,
                  reply |-> "added"]

\* the command refuses: no call on the collection
Refuse(reply) == [store |-> store, calls |-> <<>>, reply |-> reply]

\* a variant of add_subscriber_command that takes any number of days
add_subscriber_command_any_days(admin_chat_id, args) ==
    IF admin_chat_id # YOUR_ADMIN_CHAT_ID THEN Refuse("admins_only")
    ELSE IF Len(args) = 0 THEN Refuse("usage")
    ELSE IF ~IsIntStr(args[1]) THEN Refuse("bad_chat_id")
    ELSE IF Len(args) > 1 /\ ~IsIntStr(args[2]) THEN Refuse("bad_days")
    ELSE grant(store, IntOf[args[1]],
               IF Len(args) > 1 THEN <<IntOf[args[2]]>> ELSE <<>>)

add_subscriber_command(admin_chat_id, args) ==
    IF admin_chat_id # YOUR_ADMIN_CHAT_ID THEN Refuse("admins_only")
    ELSE IF Len(args) = 0 THEN Refuse("usage")
    ELSE IF ~IsIntStr(args[1]) THEN Refuse("bad_chat_id")
    ELSE IF Len(args) > 1 /\ ~IsIntStr(args[2]) THEN Refuse("bad_days")
    ELSE IF Len(args) > 1 /\ IntOf[args[2]] <= 0 THEN Refuse("days_not_positive")
    ELSE grant(store, IntOf[args[1]],
               IF Len(args) > 1 THEN <<IntOf[args[2]]>> ELSE <<>>)

AddSubscriberCommand ==
    \E in \in GrantInputs :
        /\ store' = add_subscriber_command(in[1], in[2]).store
        /\ UNCHANGED <<bot_data, now, conv, user_data, out, load, conc, submitted>>

\* a day passes
Tick ==
    /\ now < MaxNow
    /\ now' = now + 1
    /\ UNCHANGED <<bot_data, store, conv, user_data, out, load, conc, submitted>>

Next ==
    \/ \E u \in Users : StartCommand(u)
    \/ \E u \in Users : SubjectCallback(u)
    \/ \E u \in Users : AnswerCallback(u)
    \/ \E u \in Users : NextCallback(u)
    \/ \E u \in Users : CancelCommand(u)
    \/ \E u \in Users : PaymentCommand(u)
    \/ AddSubscriberCommand

\* the quiz and the gate while the clock stands still
Spec == Init /\ [][Next]_vars

(***************************************************************************)
(* The fields of a user's dict, as handle_answer and handle_next read them.*)
(***************************************************************************)
QuestionsOf(ud) == Get(ud, "questions", <<>>)

BatchOf(ud) == Get(ud, "current_batch_indices", <<>>)

AnsweredOf(ud) == Get(ud, "answered_in_batch", {})

ScoreOf(ud) == Get(ud, "score", 0)

CursorOf(ud) == Get(ud, "index", 0)

\* the key of every qid the model sends
CreditKeys == [q \in IntLiterals |-> correctly_answered_key(q)]

\* the qids q whose key correct_<q> is set
CreditedOf(ud) == {q \in IntLiterals : Get(ud, CreditKeys[q], FALSE)}

\* every question of the current batch has an answer
BatchFull(ud) == Elems(BatchOf(ud)) \subseteq AnsweredOf(ud)

\* the current batch holds the last question of the list
LastBatch(ud) == (Len(QuestionsOf(ud)) - 1) \in Elems(BatchOf(ud))

\* the callback data ans|<qid>|<letter> with an integer qid
WellFormed(data) == Len(data) = 3 /\ IsIntStr(data[2])

(***************************************************************************)
(* C1: within a session, score equals the number of distinct questions     *)
(* that received a correct answer, and never exceeds len(questions).       *)
(* The question a credited qid names is questions[qid], so a negative qid  *)
(* names the question n + qid.                                             *)
(***************************************************************************)
C1_ScoreCountsDistinctQuestions ==
    \A u \in Users :
        LET ud == user_data[u]
            n  == Len(QuestionsOf(ud))
        IN  n > 0 =>
              /\ ScoreOf(ud) =
                    Cardinality({IF q < 0 THEN n + q ELSE q : q \in CreditedOf(ud)})
              /\ ScoreOf(ud) <= n


(***************************************************************************)
(* C2: the successive values of current_batch are the consecutive windows  *)
(* [0,10), [10,20), ... ending at n: a batch is one of these windows, the   *)
(* first batch of a newly chosen quiz is the window at 0, an accepted next *)
(* event advances by exactly one window, and the quiz is reported as       *)
(* completed only after the last window is fully answered.                 *)
(***************************************************************************)
\* the k-th window of a list of n questions
BatchWindow(k, n) ==
    Range(k * QUESTIONS_PER_BATCH, Min((k + 1) * QUESTIONS_PER_BATCH, n))

\* the number of the window the batch starts
WindowOf(batch) == batch[1] \div QUESTIONS_PER_BATCH

C2_BatchesAreConsecutiveWindows ==
    \A u \in Users :
        LET ud    == user_data[u]
            n     == Len(QuestionsOf(ud))
            batch == BatchOf(ud)
        IN  /\ batch # <<>> =>
                 /\ batch[1] % QUESTIONS_PER_BATCH = 0
                 /\ batch = BatchWindow(WindowOf(batch), n)
            /\ conv[u] = SELECTING_SUBJECT =>
                 \A data \in SubjectData : \A a \in OnSubject(u, data, "none") :
                     a.conv = QUIZ_IN_PROGRESS =>
                         BatchOf(a.ud) = BatchWindow(0, Len(QuestionsOf(a.ud)))
            /\ (conv[u] = QUIZ_IN_PROGRESS /\ batch # <<>>) =>
                 LET a == OnNext(u, "none")
                 IN  a.out.kind = "batch" =>
                         /\ BatchFull(ud)
                         /\ BatchOf(a.ud) = BatchWindow(WindowOf(batch) + 1, n)
                         /\ AnsweredOf(a.ud) = {}
            /\ (n > 0 /\ out[u].kind \in {"finish", "all_answered"}) =>
                 BatchFull(ud) /\ LastBatch(ud)


(***************************************************************************)
(* C3: an answer with a qid of the session's list ends the quiz, reporting *)
(* score/total_questions as the final score, if and only if after the      *)
(* answer was recorded answered_in_batch covers the current batch and the  *)
(* batch holds index total_questions - 1; in every other case the session  *)
(* stays in the quiz-in-progress state. An answer whose handler is cut     *)
(* short by a transport failure never ends the quiz.                       *)
(***************************************************************************)
C3_AnswerCompletesIffFinalBatchAnswered ==
    \A u \in Users :
        conv[u] = QUIZ_IN_PROGRESS =>
            LET ud == user_data[u]
                n  == Len(QuestionsOf(ud))
            IN  \A data \in AnswerData(ud), fault \in AnswerFaults :
                    (WellFormed(data) /\ IntOf[data[2]] \in 0..(n - 1)) =>
                        LET a == OnAnswer(u, data, fault)
                        IN  IF /\ fault = "none"
                               /\ BatchFull(a.ud)
                               /\ LastBatch(a.ud)
                            THEN /\ a.conv = SELECTING_SUBJECT
                                 /\ a.out = Msg("finish", ScoreOf(a.ud), n)
                            ELSE /\ a.conv = QUIZ_IN_PROGRESS
                                 /\ a.out.kind # "finish"

\* two questions, both answered correctly: the final score reads 2/2
C3_Witness ==
    \E u \in Users :
        /\ conv[u] = SELECTING_SUBJECT
        /\ Len(QuestionsOf(user_data[u])) = 2
        /\ out[u] = Msg("finish", 2, 2)

(***************************************************************************)
(* C4: a next event received while a question of the current batch is      *)
(* unanswered changes nothing in the session or the conversation state,    *)
(* and reports len(current_batch) - |answered_in_batch|.                   *)
(***************************************************************************)
C4_PrematureNextChangesNothing ==
    \A u \in Users :
        LET ud == user_data[u]
        IN  (conv[u] = QUIZ_IN_PROGRESS /\ ~BatchFull(ud)) =>
                /\ \A fault \in NextFaults :
                       LET a == OnNext(u, fault)
                       IN  a.ud = ud /\ a.conv = QUIZ_IN_PROGRESS
                /\ OnNext(u, "none").out =
                       Msg("remaining",
                           Len(BatchOf(ud)) - Cardinality(AnsweredOf(ud)), 0)

\* a premature next was answered with the count, the batch partly answered
C4_Witness ==
    \E u \in Users :
        LET ud == user_data[u]
        IN  /\ conv[u] = QUIZ_IN_PROGRESS
            /\ out[u].kind = "remaining"
            /\ AnsweredOf(ud) # {}
            /\ ~BatchFull(ud)
            /\ out[u].a = Cardinality(Elems(BatchOf(ud)) \ AnsweredOf(ud))

(***************************************************************************)
(* C5: next requested while 3 of the 10 questions of the current batch are *)
(* unanswered leaves the quiz in progress with the batch unchanged, and    *)
(* the count reported is the 3 unanswered ones.                            *)
(***************************************************************************)
\* user u has a batch of 10 with 3 of its questions unanswered
ThreeOfTenOpen(u) ==
    /\ conv[u] = QUIZ_IN_PROGRESS
    /\ Len(BatchOf(user_data[u])) = 10
    /\ Cardinality(Elems(BatchOf(user_data[u])) \ AnsweredOf(user_data[u])) = 3

C5_ThreeOfTenReportsThree ==
    \A u \in Users :
        ThreeOfTenOpen(u) =>
            LET a == OnNext(u, "none")
            IN  /\ a.conv = QUIZ_IN_PROGRESS
                /\ a.ud = user_data[u]
                /\ a.out = Msg("remaining", 3, 0)

\* the statement as written: the count reported is 7
C5_ThreeOfTenReportsSeven ==
    \A u \in Users :
        ThreeOfTenOpen(u) =>
            LET a == OnNext(u, "none")
            IN  /\ a.conv = QUIZ_IN_PROGRESS
                /\ a.ud = user_data[u]
                /\ a.out = Msg("remaining", 7, 0)

C5_Witness ==
    \E u \in Users :
        /\ ThreeOfTenOpen(u)
        /\ out[u] = Msg("remaining", 3, 0)


(***************************************************************************)
(* C6: an answer whose qid is an index of the session's list but not of    *)
(* the current batch is scored like any other answer (credited at most     *)
(* once) and leaves answered_in_batch, current_batch and the cursor        *)
(* unchanged; it sends no batch, and the quiz is reported finished on it   *)
(* only when the final batch was fully answered before the event.          *)
(***************************************************************************)
C6_StaleAnswerLeavesBatchAlone ==
    \A u \in Users :
        conv[u] = QUIZ_IN_PROGRESS =>
            LET ud == user_data[u]
                n  == Len(QuestionsOf(ud))
            IN  \A data \in AnswerData(ud), fault \in AnswerFaults :
                    (/\ WellFormed(data)
                     /\ IntOf[data[2]] \in 0..(n - 1)
                     /\ IntOf[data[2]] \notin Elems(BatchOf(ud))) =>
                        LET qid  == IntOf[data[2]]
                            a    == OnAnswer(u, data, fault)
                            good == /\ fault # "answer"
                                    /\ data[3] = Deref(QuestionsOf(ud)[qid + 1]).correct
                        IN  /\ AnsweredOf(a.ud) = AnsweredOf(ud)
                            /\ BatchOf(a.ud) = BatchOf(ud)
                            /\ CursorOf(a.ud) = CursorOf(ud)
                            /\ QuestionsOf(a.ud) = QuestionsOf(ud)
                            /\ CreditedOf(a.ud) =
                                  CreditedOf(ud) \cup (IF good THEN {qid} ELSE {})
                            /\ ScoreOf(a.ud) =
                                  ScoreOf(ud) + (IF good /\ qid \notin CreditedOf(ud)
                                                 THEN 1 ELSE 0)
                            /\ a.out.kind # "batch"
                            /\ a.conv # QUIZ_IN_PROGRESS =>
                                  /\ BatchFull(ud) /\ LastBatch(ud)
                                  /\ a.conv = SELECTING_SUBJECT

\* an answer to a question of the first batch got its feedback while the
\* second batch was current and unanswered
C6_Witness ==
    \E u \in Users :
        LET ud == user_data[u]
        IN  /\ conv[u] = QUIZ_IN_PROGRESS
            /\ out[u].kind = "feedback"
            /\ BatchOf(ud) # <<>>
            /\ BatchOf(ud)[1] = QUESTIONS_PER_BATCH
            /\ AnsweredOf(ud) = {}
            /\ CreditedOf(ud) = 0..(QUESTIONS_PER_BATCH - 1)
            /\ ScoreOf(ud) = QUESTIONS_PER_BATCH

(***************************************************************************)
(* C7: an answer token whose qid is outside [0, len(questions)), negative  *)
(* or too large, aborts the session: the conversation ends and all session *)
(* fields are cleared, score and answered_in_batch with them.              *)
(***************************************************************************)
C7_OutOfRangeQidAborts ==
    \A u \in Users :
        conv[u] = QUIZ_IN_PROGRESS =>
            LET ud == user_data[u]
                n  == Len(QuestionsOf(ud))
            IN  \A data \in AnswerData(ud) :
                    (WellFormed(data) /\ IntOf[data[2]] \notin 0..(n - 1)) =>
                        LET a == OnAnswer(u, data, "none")
                        IN  a.conv = END /\ DOMAIN a.ud = {}

(***************************************************************************)
(* C8: the cancel event is processed in every state: after it the user is  *)
(* in no session and all session fields are cleared.                       *)
(***************************************************************************)
C8_CancelAlwaysClears ==
    \A u \in Users :
        LET a == OnCancel(u, "none")
        IN  a.conv = END /\ DOMAIN a.ud = {}


(***************************************************************************)
(* C9: in every reachable state, the states left by the error paths        *)
(* included, a start event that passes the gate with a non-empty bank      *)
(* leads to SELECTING_SUBJECT with nothing of an earlier session left in   *)
(* user_data; and a quiz chosen there begins with the first batch, score   *)
(* 0, nothing answered and no question credited.                           *)
(***************************************************************************)
\* the keys start_quiz sets
SessionKeys ==
    {"subject", "questions", "index", "score", "answered_in_batch",
     "current_batch_indices"}

C9_StartRecoversFreshSession ==
    \A u \in Users :
        /\ \A dbfault \in BOOLEAN :
               (/\ is_user_subscribed(u, dbfault)
                /\ \E s \in DOMAIN bot_data.val : bot_data.val[s] # <<>>) =>
                   LET a == OnStart(u, dbfault, "none")
                   IN  /\ a.conv = SELECTING_SUBJECT
                       /\ DOMAIN a.ud = {}
                       /\ a.out.kind = "welcome"
        /\ conv[u] = SELECTING_SUBJECT =>
               \A data \in SubjectData : \A a \in OnSubject(u, data, "none") :
                   IF a.conv = QUIZ_IN_PROGRESS
                   THEN /\ DOMAIN a.ud = SessionKeys
                        /\ QuestionsOf(a.ud) # <<>>
                        /\ ScoreOf(a.ud) = 0
                        /\ BatchOf(a.ud)[1] = 0
                        /\ AnsweredOf(a.ud) = {}
                        /\ a.out = Msg("batch", 0, CursorOf(a.ud))
                   ELSE a.conv = END /\ DOMAIN a.ud = {}

\* a transport failure cut the sending of a batch short, and the user may
\* start again
C9_Witness ==
    \E u \in Users :
        LET ud == user_data[u]
        IN  /\ is_user_subscribed(u, FALSE)
            /\ out[u].kind = "error"
            /\ conv[u] = QUIZ_IN_PROGRESS
            /\ BatchOf(ud) # <<>>
            /\ BatchOf(ud)[Len(BatchOf(ud))] + 1 # CursorOf(ud)
            /\ ScoreOf(ud) > 0
            /\ LET a == OnStart(u, FALSE, "none")
               IN  a.conv = SELECTING_SUBJECT /\ DOMAIN a.ud = {}


(***************************************************************************)
(* C10: a quiz session is only created after a gate pass. A start whose    *)
(* gate check fails ends the conversation, in the middle of a quiz too,    *)
(* and with no conversation open no subject choice is handled; a start     *)
(* whose gate check passes leads to SELECTING_SUBJECT. A conversation is   *)
(* opened only by a start that passed the gate, and QUIZ_IN_PROGRESS is    *)
(* entered only from SELECTING_SUBJECT.                                    *)
(***************************************************************************)
\* what a delivered start does in the current state
GateDecidesStart ==
    \A u \in Users :
        /\ \A dbfault \in BOOLEAN :
               LET a == OnStart(u, dbfault, "none")
               IN  IF is_user_subscribed(u, dbfault)
                   THEN (\E s \in DOMAIN bot_data.val : bot_data.val[s] # <<>>)
                            => a.conv = SELECTING_SUBJECT
                   ELSE a.conv = END /\ a.out.kind = "payment_prompt"
        /\ conv[u] = END =>
               \A data \in SubjectData, fault \in QuizFaults :
                   OnSubject(u, data, fault) = {Unhandled(u)}

\* the steps that open a conversation or enter the quiz
SessionOnlyAfterGatePass ==
    \A u \in Users :
        /\ (conv[u] = END /\ conv'[u] # END) =>
               /\ is_user_subscribed(u, FALSE)
               /\ conv'[u] = SELECTING_SUBJECT
               /\ out'[u].kind = "welcome"
        /\ (conv[u] # QUIZ_IN_PROGRESS /\ conv'[u] = QUIZ_IN_PROGRESS) =>
               conv[u] = SELECTING_SUBJECT

C10_SessionOnlyAfterGatePass ==
    [](GateDecidesStart) /\ [][SessionOnlyAfterGatePass]_vars

\* a start in the middle of a quiz failed the gate: the conversation is over
\* and the subject buttons are dead
C10_Witness ==
    \E u \in Users :
        /\ conv[u] = END
        /\ out[u].kind = "payment_prompt"
        /\ QuestionsOf(user_data[u]) # <<>>
        /\ \A data \in SubjectData : OnSubject(u, data, "none") = {Unhandled(u)}


(***************************************************************************)
(* The gate and the grants while the clock runs: /addsubscriber with valid *)
(* and invalid arguments from the admin and from a user, the days passing, *)
(* and /start asking the gate.                                             *)
(***************************************************************************)
\* the chat ids the grants name
GateIds == {1, 2}

\* the argument lists of /addsubscriber, valid and invalid
GateGrantArgs ==
    {<<>>, <<"x">>, <<"1">>, <<"2">>, <<"1", "1">>, <<"1", "2">>, <<"2", "1">>,
     <<"1", "0">>, <<"1", "-1">>, <<"1", "x">>}

GateGrantInputs == ({YOUR_ADMIN_CHAT_ID} \cup Users) \X GateGrantArgs

GrantCommand ==
    \E in \in GateGrantInputs :
        /\ store' = add_subscriber_command(in[1], in[2]).store
        /\ UNCHANGED <<bot_data, now, conv, user_data, out, load, conc, submitted>>

GateNext ==
    \/ GrantCommand
    \/ Tick
    \/ \E u \in Users : StartCommand(u)

GateSpec == Init /\ [][GateNext]_vars

(***************************************************************************)
(* C11: is_user_subscribed answers False when the user has no document,    *)
(* False when subscription_expires_at is set and strictly before now, True *)
(* when it is absent or not before now, and False when the lookup raises;  *)
(* a start, which asks it, leaves the collection as it was.                *)
(***************************************************************************)
\* the documents of chat_id in the collection
DocsOf(coll, chat_id) == {coll[i] : i \in Matching(coll, chat_id)}

GateAnswers ==
    \A chat_id \in GateIds :
        /\ is_user_subscribed(chat_id, TRUE) = FALSE
        /\ is_user_subscribed(chat_id, FALSE) =
              /\ DocsOf(store, chat_id) # {}
              /\ \A doc \in DocsOf(store, chat_id) :
                    \/ "subscription_expires_at" \notin DOMAIN doc
                    \/ doc["subscription_expires_at"] >= now

StartKeepsStore ==
    \A u \in Users : StartCommand(u) => store' = store

C11_GateAnswers == [](GateAnswers) /\ [][StartKeepsStore]_vars

\* a start passed the gate on the very day the subscription expires
C11_Witness ==
    \E u \in Users :
        /\ conv[u] = SELECTING_SUBJECT
        /\ out[u].kind = "welcome"
        /\ now > 0
        /\ \E doc \in DocsOf(store, u) :
              /\ "subscription_expires_at" \in DOMAIN doc
              /\ doc["subscription_expires_at"] = now


(***************************************************************************)
(* C12: /addsubscriber makes no call on the collection, and leaves it as   *)
(* it was, when the caller is not the admin or when the arguments are      *)
(* invalid: no user id, a user id or a number of days that is no integer,  *)
(* or a number of days <= 0.                                               *)
(***************************************************************************)
InvalidGrant(caller, args) ==
    \/ caller # YOUR_ADMIN_CHAT_ID
    \/ args = <<>>
    \/ ~IsIntStr(args[1])
    \/ Len(args) > 1 /\ (~IsIntStr(args[2]) \/ IntOf[args[2]] <= 0)

C12_RefusedGrantTouchesNothing ==
    \A in \in GateGrantInputs :
        InvalidGrant(in[1], in[2]) =>
            LET r == add_subscriber_command(in[1], in[2])
            IN  r.calls = <<>> /\ r.store = store

\* a subscription with an expiry is in the collection, and a grant of 0 days
\* for the same user is refused
C12_Witness ==
    /\ \E doc \in DocsOf(store, 1) : "subscription_expires_at" \in DOMAIN doc
    /\ add_subscriber_command(YOUR_ADMIN_CHAT_ID, <<"1", "0">>) =
           [store |-> store, calls |-> <<>>, reply |-> "days_not_positive"]

(***************************************************************************)
(* C13: a valid admin grant is an upsert keyed by chat_id: the collection  *)
(* holds exactly one document of the user afterwards and the documents of  *)
(* the others are as before; the document is created if absent, an         *)
(* existing one keeps its subscribed_at; a grant without days leaves no    *)
(* subscription_expires_at, a grant with d days sets it to now + d; and    *)
(* the same permanent grant repeated leaves the collection unchanged.      *)
(***************************************************************************)
\* the valid grants the admin sends: the user and the optional days
ValidGrants == {<<"1">>, <<"2">>, <<"1", "1">>, <<"1", "2">>, <<"2", "1">>}

C13_GrantIsUpsert ==
    /\ \A chat_id \in GateIds : Cardinality(Matching(store, chat_id)) <= 1
    /\ \A args \in ValidGrants :
          LET target == IntOf[args[1]]
              r      == add_subscriber_command(YOUR_ADMIN_CHAT_ID, args).store
              before == DocsOf(store, target)
              doc    == find_one(r, target)
          IN  /\ Cardinality(Matching(r, target)) = 1
              /\ \A other \in GateIds \ {target} :
                    DocsOf(r, other) = DocsOf(store, other)
              /\ Len(r) = Len(store) + (IF before = {} THEN 1 ELSE 0)
              /\ doc["chat_id"] = target
              /\ doc["subscribed_at"] =
                    (IF before = {} THEN now
                     ELSE (CHOOSE d \in before : TRUE)["subscribed_at"])
              /\ IF Len(args) = 1
                 THEN "subscription_expires_at" \notin DOMAIN doc
                 ELSE doc["subscription_expires_at"] = now + IntOf[args[2]]
              /\ Len(args) = 1 => grant(r, target, <<>>).store = r

\* a document granted on day 0 was granted again later: its expiry is later
\* than any grant of day 0 gives, and subscribed_at is still 0
C13_Witness ==
    \E doc \in DocsOf(store, 1) :
        /\ doc["subscribed_at"] = 0
        /\ "subscription_expires_at" \in DOMAIN doc
        /\ doc["subscription_expires_at"] > 2
        /\ Cardinality(Matching(store, 1)) = 1


(***************************************************************************)
(* The random mix over corpora of several shapes: the bank is any of the   *)
(* corpora of MixSizes, and a subscribed user starts, chooses and cancels. *)
(***************************************************************************)
MixInit ==
    /\ bot_data \in {bank_of(sizes) : sizes \in MixSizes}
    /\ store = EmptyDict
    /\ now = 0
    /\ conv = [u \in Users |-> END]
    /\ user_data = [u \in Users |-> EmptyDict]
    /\ out = [u \in Users |-> Msg("none", 0, 0)]
    /\ load = Returned
    /\ NoRuns
    /\ submitted = [u \in Users |-> {}]

MixNext ==
    \/ AddSubscriberCommand
    \/ \E u \in Users : StartCommand(u)
    \/ \E u \in Users : SubjectCallback(u)
    \/ \E u \in Users : CancelCommand(u)

MixSpec == MixInit /\ [][MixNext]_vars

\* the sizes of the subjects of a bank, in the order of its keys
SizesOf(bank) == [i \in 1..Len(bank.keys) |-> Len(bank.val[bank.keys[i]])]

\* the number of entries of the list that are questions of the subject
CountOf(bank, qs, subj) ==
    Cardinality({i \in 1..Len(qs) : qs[i] \in Elems(bank.val[subj])})

\* min(s, max(1, round(target_total * s / total_available)))
ShareOf(bank, subj) ==
    LET s == Len(bank.val[subj])
        total_available == SumLen(bank, 1)
        target_total == Min(50, total_available)
    IN  Min(s, Max(1, PyRound(target_total * s, total_available)))

\* the question list is a random mix of the bank with every share as stated
SharesKept(bank, qs) ==
    /\ Cardinality(Elems(qs)) = Len(qs)
    /\ \A subj \in DOMAIN bank.val :
          LET s == Len(bank.val[subj])
          IN  /\ s = 0 => CountOf(bank, qs, subj) = 0
              /\ s > 0 => /\ CountOf(bank, qs, subj) = ShareOf(bank, subj)
                          /\ CountOf(bank, qs, subj) \in 1..s

(***************************************************************************)
(* C14: in the random mix every non-empty subject of size s contributes    *)
(* exactly min(s, max(1, round(target_total * s / total_available)))       *)
(* distinct questions of its own, at least 1 and at most s; this holds of  *)
(* every list the random button can prepare and of the list of every       *)
(* session it opened.                                                      *)
(***************************************************************************)
C14_EachSubjectContributesItsShare ==
    /\ \A qs \in QuestionsToAsk(bot_data, <<"random">>) : SharesKept(bot_data, qs)
    /\ \A u \in Users :
          Get(user_data[u], "subject", "") = "Random Mix" =>
              SharesKept(bot_data, user_data[u]["questions"])

\* a random mix of the corpus of sizes 5, 100, 5 was opened: 2 + 45 + 2
C14_Witness ==
    \E u \in Users :
        /\ SizesOf(bot_data) = <<5, 100, 5>>
        /\ conv[u] = QUIZ_IN_PROGRESS
        /\ Get(user_data[u], "subject", "") = "Random Mix"
        /\ CountOf(bot_data, user_data[u]["questions"], "OT") = 2
        /\ CountOf(bot_data, user_data[u]["questions"], "KTT") = 45
        /\ CountOf(bot_data, user_data[u]["questions"], "Bosh") = 2

(***************************************************************************)
(* C15: for every bank with at least one question the list of the random   *)
(* mix has at least 1 and at most min(50, total_available) questions.      *)
(***************************************************************************)
C15_MixNeverExceedsTarget ==
    /\ SumLen(bot_data, 1) >= 1 =>
          /\ QuestionsToAsk(bot_data, <<"random">>) # {}
          /\ \A qs \in QuestionsToAsk(bot_data, <<"random">>) :
                Len(qs) \in 1..Min(50, SumLen(bot_data, 1))
    /\ \A u \in Users :
          Get(user_data[u], "subject", "") = "Random Mix" =>
              Len(user_data[u]["questions"]) \in 1..Min(50, SumLen(bot_data, 1))


(***************************************************************************)
(* The loader over small corpora: the blocks are drawn from the kinds      *)
(* below, load_questions takes them one by one, and main puts the dict it  *)
(* returns into bot_data.                                                  *)
(***************************************************************************)
QuestionLine == <<"Q", "?">>

\* "A) x", "B) y", "C) z", "D) w" are OptionLines; the same in lower case
LowerOptionLines == << <<"a", ")", "x">>, <<"b", ")", "y">>,
                       <<"c", ")", "z">>, <<"d", ")", "w">> >>

\* "Answer: B" and the like
AnswerLine(text) == AnswerPrefix \o text

SubjectOT == << SubjectPrefix \o <<" ", "O", "T">> >>

\* "Subject:KTT " with a line after it
SubjectKTT == << SubjectPrefix \o <<"K", "T", "T", " ">>, QuestionLine >>

\* "Subject:  " with a line after it
SubjectNoName == << SubjectPrefix \o <<" ", " ">>, QuestionLine >>

GoodBlock == <<QuestionLine>> \o OptionLines \o <<AnswerLine(<<" ", "B">>)>>

\* lower-case letters, "Answer:a " and a seventh line
LowerBlock ==
    <<QuestionLine>> \o LowerOptionLines \o <<AnswerLine(<<"a", " ">>), QuestionLine>>

\* the answer names a letter that no option has
AnswerEBlock == <<QuestionLine>> \o OptionLines \o <<AnswerLine(<<" ", "E">>)>>

\* five lines: no answer line
ShortBlock == <<QuestionLine>> \o OptionLines

\* the third option is "3) z"
BadOptionBlock ==
    <<QuestionLine>> \o [OptionLines EXCEPT ![3] = <<"3", ")", "z">>]
        \o <<AnswerLine(<<" ", "B">>)>>

\* the sixth line is "Javob: B"
BadAnswerLineBlock ==
    <<QuestionLine>> \o OptionLines \o << <<"J", "a", "v", "o", "b", ":", " ", "B">> >>

\* "Answer: AB"
BadLetterBlock == <<QuestionLine>> \o OptionLines \o <<AnswerLine(<<" ", "A", "B">>)>>

\* the block between two blank lines that follow each other: one empty line
EmptyBlock == << <<>> >>

BlockKinds == {SubjectOT, SubjectKTT, SubjectNoName, GoodBlock, LowerBlock,
               AnswerEBlock, ShortBlock, BadOptionBlock, BadAnswerLineBlock,
               BadLetterBlock, EmptyBlock}

\* content.strip().split('\n\n'): at least one block
Corpora == UNION {[1..n -> BlockKinds] : n \in 1..MaxBlocks}

NoBank == [keys |-> <<>>, val |-> EmptyDict]

LoaderInit ==
    /\ load \in {[blocks |-> blocks, pos |-> 1, current_subject |-> <<>>,
                  subjects |-> NoBank] : blocks \in Corpora}
    /\ bot_data = NoBank
    /\ store = EmptyDict
    /\ now = 0
    /\ conv = [u \in Users |-> END]
    /\ user_data = [u \in Users |-> EmptyDict]
    /\ out = [u \in Users |-> Msg("none", 0, 0)]
    /\ NoRuns
    /\ submitted = [u \in Users |-> {}]

\* one pass of "for block in blocks"
LoadBlock ==
    /\ load.pos <= Len(load.blocks)
    /\ LET r == load_block(load.current_subject, load.subjects,
                           load.blocks[load.pos])
       IN  load' = [load EXCEPT !.pos = @ + 1,
                                !.current_subject = r.current_subject,
                                !.subjects = r.subjects]
    /\ UNCHANGED <<bot_data, store, now, conv, user_data, out, conc, submitted>>

\* load_questions returns subjects and main stores it in bot_data
LoadReturn ==
    /\ load.blocks # <<>>
    /\ load.pos > Len(load.blocks)
    /\ bot_data' = load.subjects
    /\ load' = Returned
    /\ UNCHANGED <<store, now, conv, user_data, out, conc, submitted>>

LoaderNext == LoadBlock \/ LoadReturn

LoaderSpec == LoaderInit /\ [][LoaderNext]_vars

\* the question dicts of a bank
QuestionsIn(bank) ==
    UNION {Elems(bank.val[subj]) : subj \in DOMAIN bank.val}

(***************************************************************************)
(* C16: every question the loader puts in the bank has exactly 4 options,  *)
(* each a letter followed by ')', and a correct letter that is one         *)
(* upper-case letter and the letter of one of its 4 options, so that one   *)
(* of the question's own buttons answers it correctly.                     *)
(***************************************************************************)
C16_LoadedQuestionIsAnswerable ==
    \A q \in QuestionsIn(load.subjects) \cup QuestionsIn(bot_data) :
        /\ Len(q.options) = 4
        /\ \A i \in 1..4 : isalpha(q.options[i][1]) /\ q.options[i][2] = ")"
        /\ q.correct \in Elems(UpperCase)
        /\ \E i \in 1..4 : upper(q.options[i][1]) = q.correct
        /\ \E b \in Elems(AnswerButtons(0, q)) : b[3] = q.correct

(***************************************************************************)
(* C17: the loader takes the corpus block by block.  A block that is no    *)
(* Subject block is appended, as one question of the open subject, exactly *)
(* when a subject is open and the block is well-formed (6 lines or more,   *)
(* 4 valid option lines, a valid Answer line); a rejected block changes    *)
(* neither the bank nor the open subject; a Subject block without a name   *)
(* closes the subject context.                                             *)
(***************************************************************************)
Spaces(n) == [i \in 1..n |-> " "]

\* the line is "Answer:", one letter, and blanks around the letter
ValidAnswerLine(line) ==
    \E a, b \in 0..Len(line) : \E c \in Elems(LowerCase) \cup Elems(UpperCase) :
        line = AnswerPrefix \o Spaces(a) \o <<c>> \o Spaces(b)

ValidOptionLine(line) ==
    /\ Len(line) >= 3
    /\ line[1] \in Elems(LowerCase) \cup Elems(UpperCase)
    /\ line[2] = ")"

WellFormedBlock(lines) ==
    /\ Len(lines) >= 6
    /\ \A i \in 2..5 : ValidOptionLine(lines[i])
    /\ ValidAnswerLine(lines[6])

IsSubjectBlock(lines) ==
    Len(lines[1]) >= 8 /\ [i \in 1..8 |-> lines[1][i]] = SubjectPrefix

\* the Subject line has nothing but blanks after the colon
HasNoName(lines) == \E k \in 0..Len(lines[1]) : lines[1] = SubjectPrefix \o Spaces(k)

C17_LoaderTakesBlockByBlock ==
    load.pos <= Len(load.blocks) =>
        LET lines    == load.blocks[load.pos]
            open     == load.current_subject
            subjects == load.subjects
            r        == load_block(open, subjects, lines)
        IN  /\ (~IsSubjectBlock(lines) /\ open # <<>> /\ WellFormedBlock(lines)) =>
                  /\ r.current_subject = open
                  /\ r.subjects.keys = subjects.keys
                  /\ DOMAIN r.subjects.val = DOMAIN subjects.val
                  /\ \A subj \in DOMAIN subjects.val :
                        IF subj = open[1]
                        THEN /\ Len(r.subjects.val[subj]) = Len(subjects.val[subj]) + 1
                             /\ SubSeq(r.subjects.val[subj], 1, Len(subjects.val[subj]))
                                    = subjects.val[subj]
                             /\ r.subjects.val[subj][Len(subjects.val[subj]) + 1].question
                                    = lines[1]
                        ELSE r.subjects.val[subj] = subjects.val[subj]
            /\ (~IsSubjectBlock(lines) /\ ~(open # <<>> /\ WellFormedBlock(lines))) =>
                  /\ r.current_subject = open
                  /\ r.subjects = subjects
            /\ (IsSubjectBlock(lines) /\ HasNoName(lines)) =>
                  /\ r.current_subject = <<>>
                  /\ r.subjects = subjects

\* after "Subject: OT" and a Subject line without a name, a well-formed block
\* was taken and rejected
C17_Witness ==
    /\ Len(load.blocks) = 3
    /\ load.pos = 4
    /\ load.blocks[1] = SubjectOT
    /\ load.blocks[2] = SubjectNoName
    /\ load.blocks[3] = GoodBlock
    /\ load.current_subject = <<>>
    /\ load.subjects.keys = << <<"O", "T">> >>
    /\ load.subjects.val[<<"O", "T">>] = <<>>


(***************************************************************************)
(* The same update delivered twice.                                        *)
(***************************************************************************)
\* an update of a user: the kind of its handler and its callback data
Event(kind, data) == [kind |-> kind, data |-> data]

\* the updates a user whose dict is ud can send
Events(ud) ==
    {Event("start", <<>>), Event("next", <<>>), Event("cancel", <<>>)}
        \cup {Event("subject", data) : data \in SubjectData}
        \cup {Event("answer", data) : data \in AnswerData(ud)}

\* what conv_handler makes of the update e of user u when the conversation is
\* in state c, the user's dict is ud and the last reply was o: the outcomes,
\* and whether a handler ran.  No transport call fails.
conv_handler(u, c, ud, o, e) ==
    LET ran(r) == [ud |-> r.ud,
                   conv |-> IF r.ret = RAISED THEN c ELSE r.ret,
                   out |-> r.out,
                   handled |-> TRUE]
        unhandled == {[ud |-> ud, conv |-> c, out |-> o, handled |-> FALSE]}
    IN  IF e.kind = "start" THEN {ran(start(u, ud, FALSE, "none"))}
        ELSE IF e.kind = "subject"
        THEN IF c = SELECTING_SUBJECT
             THEN {ran(r) : r \in start_quiz(ud, e.data, "none")}
             ELSE unhandled
        ELSE IF e.kind = "answer"
        THEN IF c = QUIZ_IN_PROGRESS
             THEN {ran(handle_answer(ud, e.data, "none"))}
             ELSE unhandled
        ELSE IF e.kind = "next"
        THEN IF c = QUIZ_IN_PROGRESS
             THEN {ran(handle_next(ud, "none"))}
             ELSE unhandled
        ELSE IF c # END THEN {ran(cancel(ud, "none"))}
        ELSE unhandled

\* the same update as the dispatch on the variables sees it
OnEvent(u, e) ==
    IF e.kind = "start" THEN {OnStart(u, FALSE, "none")}
    ELSE IF e.kind = "subject" THEN OnSubject(u, e.data, "none")
    ELSE IF e.kind = "answer" THEN {OnAnswer(u, e.data, "none")}
    ELSE IF e.kind = "next" THEN {OnNext(u, "none")}
    ELSE {OnCancel(u, "none")}

(***************************************************************************)
(* C18: in every reachable state, an update (start, a subject or the       *)
(* random button, an answer, next, cancel) delivered twice in a row leaves *)
(* the session (the user's dict and the state of the conversation) as      *)
(* delivering it once does; the second of two next advances no batch       *)
(* further, and the second of two final answers sends no final score.      *)
(***************************************************************************)
C18_DuplicateDeliveryChangesNothing ==
    \A u \in Users :
        \A e \in Events(user_data[u]) :
            LET once == conv_handler(u, conv[u], user_data[u], out[u], e)
            IN  /\ {[ud |-> a.ud, conv |-> a.conv, out |-> a.out] : a \in once}
                       = OnEvent(u, e)
                /\ \A a \in once :
                      \A b \in conv_handler(u, a.conv, a.ud, a.out, e) :
                          /\ b.ud = a.ud
                          /\ b.conv = a.conv
                          /\ e.kind = "next" =>
                                Get(b.ud, "index", 0)
                                    <= Get(user_data[u], "index", 0) + QUESTIONS_PER_BATCH
                          /\ (a.handled /\ a.out.kind = "finish") => ~b.handled

\* next was pressed again right after the second batch was sent: all its 10
\* questions are reported as remaining
C18_Witness ==
    \E u \in Users :
        /\ conv[u] = QUIZ_IN_PROGRESS
        /\ out[u] = Msg("remaining", QUESTIONS_PER_BATCH, 0)
        /\ BatchOf(user_data[u]) = Range(QUESTIONS_PER_BATCH, 2 * QUESTIONS_PER_BATCH)
        /\ AnsweredOf(user_data[u]) = {}
        /\ CursorOf(user_data[u]) = 2 * QUESTIONS_PER_BATCH


(***************************************************************************)
(* C20: whenever a quiz is in progress, 0 <= index <= len(questions), the  *)
(* current batch is a non-empty run of consecutive indices of length       *)
(* min(10, len(questions) - start) that ends at index, answered_in_batch   *)
(* is a subset of the current batch, and every credited qid lies in        *)
(* 0..len(questions)-1; a failed transport call does not break this.       *)
(***************************************************************************)
C20_SessionInvariants ==
    \A u \in Users :
        conv[u] = QUIZ_IN_PROGRESS =>
            LET ud    == user_data[u]
                n     == Len(QuestionsOf(ud))
                batch == BatchOf(ud)
            IN  /\ CursorOf(ud) \in 0..n
                /\ batch # <<>>
                /\ batch = Range(batch[1], batch[1] + Len(batch))
                /\ Len(batch) = Min(QUESTIONS_PER_BATCH, n - batch[1])
                /\ batch[Len(batch)] + 1 = CursorOf(ud)
                /\ AnsweredOf(ud) \subseteq Elems(batch)
                /\ CreditedOf(ud) \subseteq 0..(n - 1)


(***************************************************************************)
(* Handler runs that overlap.  telegram_webhook hands every update to      *)
(* application.process_update as it comes in, so a second update of a user *)
(* can be dispatched while the handler of the first waits in an awaited    *)
(* transport call.  A run is dispatched on the state of the conversation   *)
(* at its arrival, takes the code between two awaits in one step, and the  *)
(* state it returns is stored when it returns.  Up to two runs of          *)
(* handle_next and handle_answer are in flight; no transport call fails.   *)
(***************************************************************************)
\* the two first questions of the current batch that have no answer yet
TwoFirstOpen(ud) ==
    LET open == Elems(BatchOf(ud)) \ AnsweredOf(ud)
    IN  {q \in open : Cardinality({p \in open : p < q}) < 2}

\* the buttons pressed while a quiz is in progress: next, and the correct
\* answer to one of the two first open questions
ConcEvents(ud) ==
    {Event("next", <<>>)}
        \cup {Event("answer",
                    <<"ans", ToString(q), Deref(QuestionsOf(ud)[q + 1]).correct>>) :
                 q \in TwoFirstOpen(ud)}

\* the run of the handler of the update e, waiting in "await query.answer()"
NewTask(u, e) ==
    [IdleTask EXCEPT !.pc = "query_answer", !.u = u, !.kind = e.kind, !.data = e.data]

\* the run has returned: its locals are gone
DoneTask(task) ==
    [IdleTask EXCEPT !.pc = "done", !.u = task.u, !.kind = task.kind, !.data = task.data]

\* a run whose local answered_in_batch names the set of the dict keeps the
\* set, with the value it has, when the dict ud drops it
Detached(task, ud) ==
    IF task.ans.shared
    THEN [task EXCEPT !.ans = [shared |-> FALSE,
                               val |-> Get(ud, "answered_in_batch", {})]]
    ELSE task

\* every run has returned or none was started
Quiet == \A t \in TaskIds : tasks[t].pc \in {"idle", "done"}

\* a transport call that sends the reply msg
Say(u, msg) ==
    /\ out' = [out EXCEPT ![u] = msg]
    /\ sent' = Append(sent, msg)

\* a pressed button reaches handle_next or handle_answer: the first run when
\* none is in flight, the second while the first is
Arrive(u, t) ==
    /\ conv[u] = QUIZ_IN_PROGRESS
    /\ \E e \in ConcEvents(user_data[u]) :
          \/ /\ t = 1
             /\ \A o \in TaskIds : tasks[o].pc = "idle"
             /\ tasks' = [tasks EXCEPT ![1] = NewTask(u, e)]
             /\ sent' = <<>>
             /\ base' = [ud |-> user_data[u], conv |-> conv[u]]
          \/ /\ t = 2
             /\ tasks[1].pc \notin {"idle", "done"}
             /\ tasks[2].pc = "idle"
             /\ tasks' = [tasks EXCEPT ![2] = NewTask(u, e)]
             /\ UNCHANGED <<sent, base>>
    /\ UNCHANGED <<bot_data, store, now, conv, user_data, out, load, submitted>>

\* the run returns the state ret to the ConversationHandler
Return(t, ret) ==
    /\ conv' = [conv EXCEPT ![tasks[t].u] = ret]
    /\ tasks' = [tasks EXCEPT ![t] = DoneTask(tasks[t])]

\* handle_next and send_next_question_batch, from one await to the next
NextRun(t) ==
    LET me == tasks[t]
        u  == me.u
        ud == user_data[u]
    IN  /\ me.kind = "next"
        /\ me.pc \in {"query_answer", "delete_message", "send_message", "clear", "return"}
        /\ CASE me.pc = "query_answer" ->
                  LET current_batch_indices == Get(ud, "current_batch_indices", <<>>)
                      answered_in_batch     == Get(ud, "answered_in_batch", {})
                  IN  IF batch_finished(answered_in_batch, current_batch_indices)
                      THEN /\ tasks' = [tasks EXCEPT ![t].pc = "delete_message"]
                           /\ UNCHANGED <<user_data, conv, out, sent>>
                      ELSE /\ Say(u, Msg("remaining",
                                         remaining_count(current_batch_indices,
                                                         answered_in_batch), 0))
                           /\ tasks' = [tasks EXCEPT ![t].pc = "return",
                                                     ![t].ret = QUIZ_IN_PROGRESS]
                           /\ UNCHANGED <<user_data, conv>>
             [] me.pc = "delete_message" ->
                  LET current_index   == Get(ud, "index", 0)
                      questions       == Get(ud, "questions", <<>>)
                      total_questions == Len(questions)
                      end_index       == Min(current_index + QUESTIONS_PER_BATCH,
                                             total_questions)
                  IN  IF current_index >= total_questions
                      THEN /\ Say(u, Msg("all_answered", 0, 0))
                           /\ tasks' = [tasks EXCEPT ![t].pc = "return",
                                                     ![t].ret = SELECTING_SUBJECT]
                           /\ UNCHANGED <<user_data, conv>>
                      ELSE IF questions = <<>>
                      THEN /\ Say(u, Msg("no_questions", 0, 0))
                           /\ tasks' = [tasks EXCEPT ![t].pc = "clear"]
                           /\ UNCHANGED <<user_data, conv>>
                      ELSE /\ user_data' =
                                 [user_data EXCEPT ![u] =
                                     Put(Put(ud, "current_batch_indices",
                                             Range(current_index, end_index)),
                                         "answered_in_batch", {})]
                           /\ tasks' = [o \in TaskIds |->
                                          IF o = t
                                          THEN [me EXCEPT !.pc = "send_message",
                                                          !.start = current_index,
                                                          !.end_index = end_index,
                                                          !.total = total_questions]
                                          ELSE Detached(tasks[o], ud)]
                           /\ UNCHANGED <<conv, out, sent>>
             [] me.pc = "send_message" ->
                  /\ user_data' = [user_data EXCEPT ![u] = advance_index(ud, me.end_index)]
                  /\ Say(u, Msg("batch", me.start, me.end_index))
                  /\ IF me.end_index < me.total
                     THEN /\ tasks' = [tasks EXCEPT ![t].pc = "return",
                                                    ![t].ret = QUIZ_IN_PROGRESS]
                          /\ UNCHANGED conv
                     ELSE Return(t, QUIZ_IN_PROGRESS)
             [] me.pc = "clear" ->
                  /\ user_data' = [user_data EXCEPT ![u] = EmptyDict]
                  /\ conv' = [conv EXCEPT ![u] = END]
                  /\ tasks' = [o \in TaskIds |->
                                 IF o = t THEN DoneTask(me) ELSE Detached(tasks[o], ud)]
                  /\ UNCHANGED <<out, sent>>
             [] me.pc = "return" ->
                  /\ Return(t, me.ret)
                  /\ UNCHANGED <<user_data, out, sent>>
        /\ UNCHANGED <<bot_data, store, now, load, base, submitted>>

\* handle_answer, from one await to the next
AnswerRun(t) ==
    LET me == tasks[t]
        u  == me.u
        ud == user_data[u]
    IN  /\ me.kind = "answer"
        /\ me.pc \in {"query_answer", "edit_message", "clear", "return"}
        /\ CASE me.pc = "query_answer" ->
                  IF Len(me.data) # 3 \/ ~IsIntStr(me.data[2])
                  THEN /\ Say(u, Msg("bad_format", 0, 0))
                       /\ tasks' = [tasks EXCEPT ![t].pc = "return",
                                                 ![t].ret = QUIZ_IN_PROGRESS]
                       /\ UNCHANGED <<user_data, conv>>
                  ELSE
                  LET qid                   == IntOf[me.data[2]]
                      selected_letter       == me.data[3]
                      questions             == Get(ud, "questions", <<>>)
                      total_questions       == Len(questions)
                      current_batch_indices == Get(ud, "current_batch_indices", <<>>)
                      answered_in_batch     == Get(ud, "answered_in_batch", {})
                  IN  IF questions = <<>> \/ qid >= total_questions
                      THEN /\ Say(u, Msg("qid_error", 0, 0))
                           /\ tasks' = [tasks EXCEPT ![t].pc = "clear"]
                           /\ UNCHANGED <<user_data, conv>>
                      ELSE
                      LET answered1 == record_answer(qid, current_batch_indices,
                                                     answered_in_batch)
                          ud1 == IF answered1 # answered_in_batch
                                 THEN Put(ud, "answered_in_batch", answered1) ELSE ud
                      IN  IF qid < 0 - total_questions
                          THEN /\ user_data' = [user_data EXCEPT ![u] = ud1]
                               /\ tasks' = [tasks EXCEPT ![t] = DoneTask(me)]
                               /\ UNCHANGED <<conv, out, sent>>
                          ELSE
                          LET question_data == Deref(PyIndex(questions, qid))
                              is_correct == (selected_letter = question_data.correct)
                              ud2 == credit_answer(ud1, correctly_answered_key(qid),
                                                   is_correct)
                          IN  /\ user_data' = [user_data EXCEPT ![u] = ud2]
                              /\ tasks' =
                                    [tasks EXCEPT ![t] =
                                        [me EXCEPT
                                            !.pc = "edit_message",
                                            !.batch = current_batch_indices,
                                            !.total = total_questions,
                                            !.ans = [shared |->
                                                        "answered_in_batch" \in DOMAIN ud2,
                                                     val |-> answered1]]]
                              /\ UNCHANGED <<conv, out, sent>>
             [] me.pc = "edit_message" ->
                  LET answered_in_batch ==
                          IF me.ans.shared THEN Get(ud, "answered_in_batch", {})
                          ELSE me.ans.val
                  IN  IF /\ is_last_batch(me.total, me.batch)
                         /\ all_in_batch_answered(answered_in_batch, me.batch)
                      THEN /\ Say(u, Msg("finish", Get(ud, "score", 0), me.total))
                           /\ tasks' = [tasks EXCEPT ![t].pc = "return",
                                                     ![t].ret = SELECTING_SUBJECT]
                           /\ UNCHANGED <<user_data, conv>>
                      ELSE /\ Say(u, Msg("feedback", 0, 0))
                           /\ Return(t, QUIZ_IN_PROGRESS)
                           /\ UNCHANGED user_data
             [] me.pc = "clear" ->
                  /\ user_data' = [user_data EXCEPT ![u] = EmptyDict]
                  /\ conv' = [conv EXCEPT ![u] = END]
                  /\ tasks' = [o \in TaskIds |->
                                 IF o = t THEN DoneTask(me) ELSE Detached(tasks[o], ud)]
                  /\ UNCHANGED <<out, sent>>
             [] me.pc = "return" ->
                  /\ Return(t, me.ret)
                  /\ UNCHANGED <<user_data, out, sent>>
        /\ UNCHANGED <<bot_data, store, now, load, base, submitted>>

\* the runs that returned are forgotten
Release ==
    /\ Quiet
    /\ \E t \in TaskIds : tasks[t].pc = "done"
    /\ tasks' = [t \in TaskIds |-> IdleTask]
    /\ sent' = <<>>
    /\ base' = [ud |-> EmptyDict, conv |-> END]
    /\ UNCHANGED <<bot_data, store, now, conv, user_data, out, load, submitted>>

\* /start and the choice of a subject, while no run is in flight
SerialStart(u) ==
    /\ \A t \in TaskIds : tasks[t].pc = "idle"
    /\ Deliver(u, OnStart(u, FALSE, "none"))

SerialSubject(u) ==
    /\ \A t \in TaskIds : tasks[t].pc = "idle"
    /\ conv[u] = SELECTING_SUBJECT
    /\ \E data \in SubjectData : \E a \in OnSubject(u, data, "none") : Deliver(u, a)

ConcNext ==
    \/ AddSubscriberCommand
    \/ \E u \in Users : SerialStart(u)
    \/ \E u \in Users : SerialSubject(u)
    \/ \E u \in Users, t \in TaskIds : Arrive(u, t)
    \/ \E t \in TaskIds : NextRun(t)
    \/ \E t \in TaskIds : AnswerRun(t)
    \/ Release

ConcSpec == Init /\ [][ConcNext]_vars

\* the replies as a bag
BagOf(msgs) ==
    [m \in Elems(msgs) |-> Cardinality({i \in 1..Len(msgs) : msgs[i] = m})]

EventOf(task) == Event(task.kind, task.data)

\* the session and the replies after the update ea and then eb, each handled
\* to its end, from the session the first run found
Serial(u, ea, eb) ==
    UNION {{[ud   |-> b.ud,
             conv |-> b.conv,
             sent |-> BagOf((IF a.handled THEN <<a.out>> ELSE <<>>)
                                \o (IF b.handled THEN <<b.out>> ELSE <<>>))] :
               b \in conv_handler(u, a.conv, a.ud, a.out, eb)} :
             a \in conv_handler(u, base.conv, base.ud, Msg("none", 0, 0), ea)}

\* a run that no other run overlaps leaves what the handler leaves
RunAloneIsTheHandler ==
    (tasks[1].pc = "done" /\ tasks[2].pc = "idle") =>
        LET u == tasks[1].u
        IN  [ud |-> user_data[u], conv |-> conv[u], sent |-> BagOf(sent)]
                \in {[ud |-> a.ud, conv |-> a.conv, sent |-> BagOf(<<a.out>>)] :
                       a \in conv_handler(u, base.conv, base.ud, Msg("none", 0, 0),
                                          EventOf(tasks[1]))}

(***************************************************************************)
(* C19: two handler runs of one user that overlap at their awaits leave    *)
(* the session and the replies that one of the two orders of the updates,  *)
(* one after the other, leaves: two next on an answered batch move the     *)
(* session on by exactly one batch, and two answers that complete the      *)
(* last batch send the final score once.                                   *)
(***************************************************************************)
C19_OverlappingRunsAreSerialized ==
    (tasks[1].pc = "done" /\ tasks[2].pc = "done") =>
        LET u  == tasks[1].u
            e1 == EventOf(tasks[1])
            e2 == EventOf(tasks[2])
            n  == Len(QuestionsOf(base.ud))
        IN  /\ [ud |-> user_data[u], conv |-> conv[u], sent |-> BagOf(sent)]
                   \in Serial(u, e1, e2) \cup Serial(u, e2, e1)
            /\ (e1.kind = "next" /\ e2.kind = "next" /\ BatchFull(base.ud)
                    /\ CursorOf(base.ud) < n) =>
                  /\ CursorOf(user_data[u])
                        = Min(CursorOf(base.ud) + QUESTIONS_PER_BATCH, n)
                  /\ BatchOf(user_data[u])
                        = Range(CursorOf(base.ud), CursorOf(user_data[u]))
            /\ Cardinality({i \in 1..Len(sent) : sent[i].kind = "finish"}) <= 1



(***************************************************************************)
(* C21: whenever a handler that ran to its end leaves a user without a     *)
(* quiz in progress (END after a cancel, an abort or a failed gate check,  *)
(* SELECTING_SUBJECT after a restart or after the final score was sent),   *)
(* none of the session fields (subject, questions, index, score, the       *)
(* correct_<qid> marks, current_batch_indices, answered_in_batch) remains  *)
(* in user_data.                                                           *)
(***************************************************************************)
NoSessionField(ud) ==
    /\ DOMAIN ud \cap SessionKeys = {}
    /\ \A i \in DOMAIN CreditKeys : CreditKeys[i] \notin DOMAIN ud

Destroyed(a) == a.conv # QUIZ_IN_PROGRESS => NoSessionField(a.ud)

C21_NoSessionOutsideQuiz ==
    \A u \in Users :
        /\ \A dbfault \in BOOLEAN : Destroyed(OnStart(u, dbfault, "none"))
        /\ Destroyed(OnCancel(u, "none"))
        /\ Destroyed(OnNext(u, "none"))
        /\ \A data \in AnswerData(user_data[u]) :
               Destroyed(OnAnswer(u, data, "none"))



(***************************************************************************)
(* Two users and a small bank: every handler for each of them, running to  *)
(* its end, and the grants of the admin.                                   *)
(***************************************************************************)
PairUsers == {1, 2}

\* the sizes of the subjects OT, KTT and Bosh of the bank the pair uses
PairSizes == <<2, 1, 0>>

PairInit ==
    /\ bot_data = bank_of(PairSizes)
    /\ store = EmptyDict
    /\ now = 0
    /\ conv = [u \in PairUsers |-> END]
    /\ user_data = [u \in PairUsers |-> EmptyDict]
    /\ out = [u \in PairUsers |-> Msg("none", 0, 0)]
    /\ load = Returned
    /\ NoRuns
    /\ submitted = [u \in PairUsers |-> {}]

\* /addsubscriber <chat_id> by the admin, for either user
PairGrant ==
    \E u \in PairUsers :
        /\ store' = add_subscriber_command(YOUR_ADMIN_CHAT_ID, <<ToString(u)>>).store
        /\ UNCHANGED <<bot_data, now, conv, user_data, out, load, conc, submitted>>

PairStart(u) == Deliver(u, OnStart(u, FALSE, "none"))

PairSubject(u) ==
    \E data \in SubjectData : \E a \in OnSubject(u, data, "none") :
        DeliverBank(u, a, bank_after_start_quiz(bot_data, data, "none", a))

\* the button A of the next unanswered question
PairAnswerData(ud) ==
    {<<"ans", ToString(q), "A">> : q \in NextUnanswered(ud)}

PairAnswer(u) ==
    \E data \in PairAnswerData(user_data[u]) : Deliver(u, OnAnswer(u, data, "none"))

PairNextCallback(u) == Deliver(u, OnNext(u, "none"))

PairCancel(u) == Deliver(u, OnCancel(u, "none"))

PairNext ==
    \/ PairGrant
    \/ \E u \in PairUsers : PairStart(u)
    \/ \E u \in PairUsers : PairSubject(u)
    \/ \E u \in PairUsers : PairAnswer(u)
    \/ \E u \in PairUsers : PairNextCallback(u)
    \/ \E u \in PairUsers : PairCancel(u)
    \/ \E u \in PairUsers : PaymentCommand(u)

PairSpec == PairInit /\ [][PairNext]_vars



(***************************************************************************)
(* C22: the question bank is read-only after load. No start, choice of a   *)
(* subject or of the random mix, answer, next, cancel, payment or          *)
(* addsubscriber event of either user changes the subjects of the bank or  *)
(* the content or order of a subject's list: the list start_quiz shuffles  *)
(* is a copy, so the choice of one user reorders neither the bank nor the  *)
(* questions of the other user's session.                                  *)
(***************************************************************************)
OthersKeepQuestions ==
    \A u \in PairUsers :
        PairSubject(u) =>
            \A v \in PairUsers \ {u} :
                QuestionsOf(user_data'[v]) = QuestionsOf(user_data[v])

C22_BankIsReadOnly ==
    /\ [](bot_data = bank_of(PairSizes))
    /\ [][bot_data' = bot_data /\ OthersKeepQuestions]_vars

\* both users are in a quiz on the subject OT, each with the two questions
\* in an order of its own, one of them not the order of the bank
C22_Witness ==
    /\ \A u \in PairUsers :
           /\ conv[u] = QUIZ_IN_PROGRESS
           /\ user_data[u]["subject"] = "OT"
    /\ QuestionsOf(user_data[1]) = Reverse(bot_data.val["OT"])
    /\ QuestionsOf(user_data[2]) = bot_data.val["OT"]
    /\ ScoreOf(user_data[2]) > 0



(***************************************************************************)
(* C23: sessions are isolated per user. Every event of a user (start, a    *)
(* choice, an answer, next, cancel), in any interleaving with the events   *)
(* of the other user, leaves the other user's user_data and conversation   *)
(* state as they were, and a grant by /addsubscriber changes the           *)
(* user_data and the conversation state of no user. /payment changes       *)
(* nothing at all.                                                         *)
(***************************************************************************)
EventOfUser(u) ==
    \/ PairStart(u)
    \/ PairSubject(u)
    \/ PairAnswer(u)
    \/ PairNextCallback(u)
    \/ PairCancel(u)

C23_SessionsAreIsolated ==
    [][/\ \A u \in PairUsers :
              EventOfUser(u) =>
                  \A v \in PairUsers \ {u} :
                      user_data'[v] = user_data[v] /\ conv'[v] = conv[v]
       /\ PairGrant => UNCHANGED <<user_data, conv>>
       /\ \A u \in PairUsers : PaymentCommand(u) => UNCHANGED <<user_data, conv>>]_vars

\* user 1 is in a quiz with a credited answer while user 2, who was granted
\* after user 1 began, has cancelled
C23_Witness ==
    /\ conv[1] = QUIZ_IN_PROGRESS
    /\ ScoreOf(user_data[1]) > 0
    /\ conv[2] = END
    /\ out[2].kind = "cancelled"
    /\ user_data[2] = EmptyDict
    /\ Len(store) = 2



(***************************************************************************)
(* C24: an answer token of malformed shape (a number of fields other than  *)
(* three, or a qid that is no integer) changes no field of user_data and   *)
(* leaves the conversation in QUIZ_IN_PROGRESS, whatever call fails; the   *)
(* batch can still be completed: the button of the next unanswered         *)
(* question is recorded afterwards as it would have been before.           *)
(***************************************************************************)
\* callback data that match ^ans\| and are no ans|<integer>|<letter>
MalformedData ==
    {<<"ans", "">>, <<"ans", "0">>, <<"ans", "0", "A", "B">>,
     <<"ans", "x", "A">>, <<"ans", "", "A">>, <<"ans", "1.5", "A">>}

C24_MalformedTokenChangesNothing ==
    \A u \in Users :
        conv[u] = QUIZ_IN_PROGRESS =>
            \A data \in MalformedData, fault \in AnswerFaults :
                LET a == OnAnswer(u, data, fault)
                IN  /\ a.ud = user_data[u]
                    /\ a.conv = QUIZ_IN_PROGRESS
                    /\ \A q \in NextUnanswered(a.ud) :
                           LET d == <<"ans", ToString(q), "A">>
                               b == handle_answer(a.ud, d, "none")
                           IN  /\ q \in AnsweredOf(b.ud)
                               /\ b = handle_answer(user_data[u], d, "none")

\* a malformed token was handled in a batch with one answer recorded and
\* credited and another question open
C24_Witness ==
    \E u \in Users :
        /\ conv[u] = QUIZ_IN_PROGRESS
        /\ out[u].kind = "bad_format"
        /\ ScoreOf(user_data[u]) > 0
        /\ AnsweredOf(user_data[u]) # {}
        /\ ~BatchFull(user_data[u])



(***************************************************************************)
(* The conversation of a user with a record of the answers handle_answer   *)
(* took: every handler with its transport faults, one update handled after *)
(* the other.                                                              *)
(***************************************************************************)
\* the update of user u was processed with outcome a, and sub are the qids
\* answered so far in the session that a.ud holds, if it holds one
Record(u, a, bank, sub) ==
    /\ user_data' = [user_data EXCEPT ![u] = a.ud]
    /\ conv' = [conv EXCEPT ![u] = a.conv]
    /\ out' = [out EXCEPT ![u] = a.out]
    /\ bot_data' = bank
    /\ submitted' = [submitted EXCEPT ![u] =
                        IF "questions" \in DOMAIN a.ud THEN sub ELSE {}]
    /\ UNCHANGED <<store, now, load, conc>>

\* the qid for which handle_answer got as far as recording the answer: the
\* data are ans|<qid>|<letter> and the qid is an index of the list
Submission(ud, data, fault) ==
    IF fault = "answer" \/ Len(data) # 3 \/ ~IsIntStr(data[2]) THEN {}
    ELSE LET qid == IntOf[data[2]]
         IN  IF 0 <= qid /\ qid < Len(QuestionsOf(ud)) THEN {qid} ELSE {}

HistStart(u) ==
    \E dbfault \in BOOLEAN, fault \in StartFaults :
        Record(u, OnStart(u, dbfault, fault), bot_data, submitted[u])

\* start_quiz begins a session unless its first call fails
HistSubject(u) ==
    IF conv[u] = SELECTING_SUBJECT
    THEN \E data \in SubjectData, fault \in QuizFaults :
            \E a \in OnSubject(u, data, fault) :
                Record(u, a, bank_after_start_quiz(bot_data, data, fault, a),
                       IF fault = "answer" THEN submitted[u] ELSE {})
    ELSE Record(u, Unhandled(u), bot_data, submitted[u])

HistAnswer(u) ==
    IF conv[u] = QUIZ_IN_PROGRESS
    THEN \E in \in AnswerInputs(user_data[u]) :
            Record(u, OnAnswer(u, in[1], in[2]), bot_data,
                   submitted[u] \cup Submission(user_data[u], in[1], in[2]))
    ELSE Record(u, Unhandled(u), bot_data, submitted[u])

HistNextCallback(u) ==
    IF conv[u] = QUIZ_IN_PROGRESS
    THEN \E fault \in NextFaults :
            Record(u, OnNext(u, fault), bot_data, submitted[u])
    ELSE Record(u, Unhandled(u), bot_data, submitted[u])

HistCancel(u) ==
    IF conv[u] # END
    THEN \E fault \in CancelFaults :
            Record(u, OnCancel(u, fault), bot_data, submitted[u])
    ELSE Record(u, Unhandled(u), bot_data, submitted[u])

HistNext ==
    \/ AddSubscriberCommand
    \/ \E u \in Users : HistStart(u)
    \/ \E u \in Users : HistSubject(u)
    \/ \E u \in Users : HistAnswer(u)
    \/ \E u \in Users : HistNextCallback(u)
    \/ \E u \in Users : HistCancel(u)

HistSpec == Init /\ [][HistNext]_vars

(***************************************************************************)
(* C25: questions cannot be skipped. When the final score of a session has *)
(* been sent (Completed), every index of its question list has had at      *)
(* least one answer taken by handle_answer since the session began.        *)
(***************************************************************************)
Completed(u) ==
    /\ conv[u] = SELECTING_SUBJECT
    /\ out[u].kind = "finish"

C25_NoQuestionSkipped ==
    \A u \in Users :
        Completed(u) =>
            \A i \in 0..(Len(QuestionsOf(user_data[u])) - 1) : i \in submitted[u]

\* a quiz of more than two batches was completed
C25_Witness ==
    \E u \in Users :
        /\ Completed(u)
        /\ Len(QuestionsOf(user_data[u])) > 2 * QUESTIONS_PER_BATCH
        /\ out[u].b = Len(QuestionsOf(user_data[u]))



(***************************************************************************)
(* The conversation of a user who goes through a quiz: the user starts and *)
(* chooses when no quiz is in progress, and in a quiz answers the          *)
(* questions that were presented and asks for the next batch when the      *)
(* batch is full. Every call succeeds but for the send_message of a new    *)
(* batch, which may fail.                                                  *)
(***************************************************************************)
\* the questions of the current batch that were sent with their buttons:
\* the batch once the loop of send_next_question_batch has moved the cursor
\* to its end, none when its first send_message failed
Presented(ud) ==
    LET batch == BatchOf(ud)
    IN  IF batch # <<>> /\ CursorOf(ud) = batch[Len(batch)] + 1
        THEN Elems(batch)
        ELSE {}

LiveGrant ==
    \E u \in Users :
        /\ store' = add_subscriber_command(YOUR_ADMIN_CHAT_ID, <<ToString(u)>>).store
        /\ UNCHANGED <<bot_data, now, conv, user_data, out, load, conc, submitted>>

LiveStart(u) ==
    /\ conv[u] # QUIZ_IN_PROGRESS
    /\ Deliver(u, OnStart(u, FALSE, "none"))

LiveSubject(u) ==
    /\ conv[u] = SELECTING_SUBJECT
    /\ \E data \in SubjectData : \E a \in OnSubject(u, data, "none") :
           DeliverBank(u, a, bank_after_start_quiz(bot_data, data, "none", a))

\* the user presses the button A of the first presented question that has no
\* answer yet, or next when every question of a batch that is not the last
\* has one
Cooperate(u) ==
    /\ conv[u] = QUIZ_IN_PROGRESS
    /\ LET ud == user_data[u]
       IN  \/ \E q \in NextUnanswered(ud) \cap Presented(ud) :
                  Deliver(u, OnAnswer(u, <<"ans", ToString(q), "A">>, "none"))
           \/ /\ BatchFull(ud)
              /\ ~LastBatch(ud)
              /\ Deliver(u, OnNext(u, "none"))

\* the next button of a full batch, and the first send_message of the new
\* batch fails
FailedNext(u) ==
    /\ conv[u] = QUIZ_IN_PROGRESS
    /\ BatchFull(user_data[u])
    /\ ~LastBatch(user_data[u])
    /\ Deliver(u, OnNext(u, "send"))

LiveNext ==
    \/ LiveGrant
    \/ \E u \in Users : LiveStart(u)
    \/ \E u \in Users : LiveSubject(u)
    \/ \E u \in Users : Cooperate(u)
    \/ \E u \in Users : FailedNext(u)

\* weak fairness for the answers and the next of the user: the user keeps
\* going as long as there is a question to answer or a batch to ask for
LiveSpec == Init /\ [][LiveNext]_vars /\ \A u \in Users : WF_vars(Cooperate(u))

(***************************************************************************)
(* C26: progress. From every state with a quiz in progress, a user who     *)
(* keeps answering the presented questions and asking for the next batch   *)
(* eventually gets the final score: no state with a quiz in progress is a  *)
(* dead end.                                                               *)
(***************************************************************************)
C26_QuizEventuallyCompletes ==
    \A u \in Users : (conv[u] = QUIZ_IN_PROGRESS) ~> Completed(u)



(***************************************************************************)
(* C27: grant and gate agree on the stored record. A valid grant for a     *)
(* user leaves the user entitled; from a permanent grant on the user is    *)
(* entitled at every later time, and from a grant of d days on day t the   *)
(* user is entitled on every day up to t + d and on none after it, until   *)
(* the next grant for the user, the only event that changes the record; a  *)
(* grant for a user whose subscription has expired entitles the user       *)
(* again.                                                                  *)
(***************************************************************************)
\* the gate answers by the record: entitled as long as the day of expiry, if
\* there is one, has not passed
EntitledByRecord ==
    \A chat_id \in GateIds :
        is_user_subscribed(chat_id, FALSE) =
            \E doc \in DocsOf(store, chat_id) :
                "subscription_expires_at" \in DOMAIN doc =>
                    now <= doc["subscription_expires_at"]

\* a step that is the grant args leaves the record with the expiry now + d,
\* or with none, and the user entitled
GrantEntitles ==
    \A args \in ValidGrants :
        LET target == IntOf[args[1]]
        IN  store' = add_subscriber_command(YOUR_ADMIN_CHAT_ID, args).store /\ now' = now =>
                /\ is_user_subscribed(target, FALSE)'
                /\ \A doc \in DocsOf(store', target) :
                       IF Len(args) = 1
                       THEN "subscription_expires_at" \notin DOMAIN doc
                       ELSE doc["subscription_expires_at"] = now + IntOf[args[2]]

\* the record of a user changes only by a grant for that user
RecordKeptUntilGrant ==
    \A chat_id \in GateIds :
        DocsOf(store', chat_id) # DocsOf(store, chat_id) =>
            \E args \in ValidGrants :
                /\ IntOf[args[1]] = chat_id
                /\ store' = add_subscriber_command(YOUR_ADMIN_CHAT_ID, args).store

C27_GrantAndGateAgree ==
    /\ [](EntitledByRecord)
    /\ [][GrantEntitles /\ RecordKeptUntilGrant]_vars

\* a user granted one day on day 0 was refused by start on day 2, the
\* subscription having expired on day 1, and a grant of one day would
\* entitle the user again
C27_Witness ==
    \E u \in Users :
        /\ now = 2
        /\ out[u].kind = "payment_prompt"
        /\ ~is_user_subscribed(u, FALSE)
        /\ \E doc \in DocsOf(store, u) :
              /\ doc["subscribed_at"] = 0
              /\ "subscription_expires_at" \in DOMAIN doc
              /\ doc["subscription_expires_at"] = 1
        /\ LET r == add_subscriber_command(YOUR_ADMIN_CHAT_ID, <<ToString(u), "1">>).store
           IN  find_one(r, u)["subscription_expires_at"] = 3



(***************************************************************************)
(* C28: the bank grows monotonically during loading. A pass of the loop    *)
(* over any block (a question block, a rejected block, a Subject block,    *)
(* also one that names a subject opened earlier) keeps every subject and   *)
(* every question loaded so far, in their order: each list of the bank is  *)
(* a prefix of the list the pass leaves.                                   *)
(***************************************************************************)
IsPrefix(s, t) == Len(s) <= Len(t) /\ SubSeq(t, 1, Len(s)) = s

C28_BankGrowsMonotonically ==
    load.pos <= Len(load.blocks) =>
        LET subjects == load.subjects
            r == load_block(load.current_subject, subjects, load.blocks[load.pos])
        IN  /\ IsPrefix(subjects.keys, r.subjects.keys)
            /\ \A subj \in DOMAIN subjects.val :
                  /\ subj \in DOMAIN r.subjects.val
                  /\ IsPrefix(subjects.val[subj], r.subjects.val[subj])

====
